---- MODULE Spec2Model ----
(***************************************************************************)
(* A model of the sweep-dedupe engine (src/index.js, class Dedupe, the     *)
(* ES-module version that starts at line 174) and of the Bramer strategy   *)
(* (src/strategies/bramer.js).                                             *)
(*                                                                         *)
(* JavaScript values are tagged records, so that values of different       *)
(* types can be compared:                                                  *)
(*   [t |-> "undef"]                 undefined (an absent property)        *)
(*   [t |-> "str", v |-> <<chars>>]  a string, one 1-character string per  *)
(*                                   UTF-16 code unit                      *)
(*   [t |-> "num", n |-> a, d |-> b] the number a/b in lowest terms        *)
(*   [t |-> "bool", v |-> BOOLEAN]   a boolean                             *)
(*   [t |-> "arr", v |-> <<vals>>]   an array of values (compared by       *)
(*                                   content only where the code does so)  *)
(*   [t |-> "dedupe", steps |-> a]   an object {steps: <array at heap      *)
(*                                   address a>}; a = 0: no steps property *)
(*   [t |-> "ref", k |-> k]          a reference to the k-th input record  *)
(***************************************************************************)
EXTENDS Integers, Sequences, FiniteSets, TLC

VARIABLES
    settings,     \* this.settings of the one engine instance
    input,        \* the value the caller passes to run(): [kind, recs]
    heap,         \* the mutable `steps` arrays, by address
    throttled,    \* emitProgress (the instance's throttle) was invoked before
    pc,           \* per run: the .then() callback that runs next
    strategy,     \* per run: `var strategy` captured when run() is called
    output,       \* per run: `var output` (the checked input array)
    refs,         \* per run: the working records, in input order
    sortedRefs,   \* per run: the current sort, as positions into refs
    sortedBy,     \* per run: the sort key sortedRefs was sorted by
    stepIndex,    \* per run: index of the step being scanned (0-based)
    i,            \* per run: the anchor cursor
    n,            \* per run: the candidate cursor
    compared,     \* per run: the (i, n, score) triples of the current step
    events,       \* per run: [runMutated |-> count, progress |-> count]
    result,       \* per run: the value the promise resolves with
    error,        \* per run: the message of the error the promise rejects with
    validated,    \* the descriptor of a direct call of validateStrategy()
    verdict,      \* what that call returned
    argument,     \* the arguments of a direct call of a handler or method
    returned      \* what that call returned

vars == <<settings, input, heap, throttled, pc, strategy, output, refs,
          sortedRefs, sortedBy, stepIndex, i, n, compared, events, result, error,
          validated, verdict, argument, returned>>

-----------------------------------------------------------------------------
(* Values *)

Undef == [t |-> "undef"]
Str(s) == [t |-> "str", v |-> s]
Bool(b) == [t |-> "bool", v |-> b]
Arr(s) == [t |-> "arr", v |-> s]

RECURSIVE GCD(_, _)
GCD(a, b) == IF b = 0 THEN a ELSE GCD(b, a % b)

\* The number a/b (b > 0), in lowest terms.
Rat(a, b) == LET g == GCD(a, b) IN [t |-> "num", n |-> a \div g, d |-> b \div g]
Num(a) == [t |-> "num", n |-> a, d |-> 1]

IsNum(x) == x.t = "num"
RatLess(x, y) == x.n * y.d < y.n * x.d
RatLeq(x, y) == x.n * y.d <= y.n * x.d
RatAdd(x, y) == Rat(x.n * y.d + y.n * x.d, x.d * y.d)
RatDivInt(x, k) == Rat(x.n, x.d * k)

\* ToNumber of the values the comparisons return (a number or a boolean).
ToNumber(x) == IF x.t = "bool" THEN (IF x.v THEN Num(1) ELSE Num(0)) ELSE x

\* JavaScript truthiness.
Truthy(x) ==
    CASE x.t = "undef" -> FALSE
      [] x.t = "str" -> x.v # <<>>
      [] x.t = "num" -> x.n # 0
      [] x.t = "bool" -> x.v
      [] OTHER -> TRUE

\* Property lookup: an absent property reads as undefined.
Get(obj, key) == IF key \in DOMAIN obj THEN obj[key] ELSE Undef

-----------------------------------------------------------------------------
(* Strings: sequences of code units.  A code unit outside ASCII is written *)
(* by its name ("Otilde"); CodeUnits lists the code units in code order.   *)

CodeUnits ==
    <<" ", "$", "(", ")", ",", "-", ".", "/",
      "0", "1", "2", "3", "4", "5", "6", "7", "8", "9", ":", ";", "<", ">",
      "A", "B", "C", "D", "E", "F", "G", "H", "I", "J", "K", "L", "M",
      "N", "O", "P", "Q", "R", "S", "T", "U", "V", "W", "X", "Y", "Z",
      "[", "]", "_",
      "a", "b", "c", "d", "e", "f", "g", "h", "i", "j", "k", "l", "m",
      "n", "o", "p", "q", "r", "s", "t", "u", "v", "w", "x", "y", "z",
      "{", "}", "Ntilde", "Otilde">>

CharCode == [c \in {CodeUnits[k] : k \in DOMAIN CodeUnits} |->
                CHOOSE k \in DOMAIN CodeUnits : CodeUnits[k] = c]

AllChars == {CodeUnits[k] : k \in DOMAIN CodeUnits}
Digits == {"0", "1", "2", "3", "4", "5", "6", "7", "8", "9"}
Upper == {CodeUnits[k] : k \in CharCode["A"] .. CharCode["Z"]}
Lower == {CodeUnits[k] : k \in CharCode["a"] .. CharCode["z"]}
Whitespace == {" "}

\* String.prototype.toLowerCase / toUpperCase, one code unit.
LowerOf(c) == IF c \in Upper THEN CodeUnits[CharCode[c] - CharCode["A"] + CharCode["a"]] ELSE c
UpperOf(c) == IF c \in Lower THEN CodeUnits[CharCode[c] - CharCode["a"] + CharCode["A"]] ELSE c

StartsWith(s, p) == Len(s) >= Len(p) /\ SubSeq(s, 1, Len(p)) = p
DropFirst(s, k) == SubSeq(s, k + 1, Len(s))

\* a < b for two strings: the order of the relational operators on strings.
RECURSIVE StrLess(_, _)
StrLess(a, b) ==
    IF b = <<>> THEN FALSE
    ELSE IF a = <<>> THEN TRUE
    ELSE IF a[1] # b[1] THEN CharCode[a[1]] < CharCode[b[1]]
    ELSE StrLess(Tail(a), Tail(b))

RECURSIVE Filter(_, _)
Filter(s, keep) ==
    IF s = <<>> THEN <<>>
    ELSE (IF s[1] \in keep THEN <<s[1]>> ELSE <<>>) \o Filter(Tail(s), keep)

\* Array.prototype.join(sep) of an array of strings.
RECURSIVE Join(_, _)
Join(a, sep) ==
    IF a = <<>> THEN <<>>
    ELSE IF Len(a) = 1 THEN a[1]
    ELSE a[1] \o sep \o Join(Tail(a), sep)

AllIn(s, set) == \A k \in DOMAIN s : s[k] \in set

\* The least j >= k with j past the end of s or s[j] not in set.
NextNot(s, k, set) ==
    CHOOSE j \in k .. Len(s) + 1 :
        /\ (j = Len(s) + 1 \/ s[j] \notin set)
        /\ \A m \in k .. j - 1 : s[m] \in set

\* s matches [A-Z][a-z]+
CapLower(s) == Len(s) >= 2 /\ s[1] \in Upper /\ AllIn(Tail(s), Lower)

\* String.prototype.split on the regular expression \s*<sep>\s*.
RECURSIVE SplitRaw(_, _)
SplitRaw(s, sep) ==
    IF \A k \in DOMAIN s : s[k] # sep THEN <<s>>
    ELSE LET k == CHOOSE k \in DOMAIN s : s[k] = sep /\ \A m \in 1 .. k - 1 : s[m] # sep
         IN  <<SubSeq(s, 1, k - 1)>> \o SplitRaw(DropFirst(s, k), sep)

RECURSIVE TrimRight(_)
TrimRight(s) ==
    IF s # <<>> /\ s[Len(s)] \in Whitespace THEN TrimRight(SubSeq(s, 1, Len(s) - 1)) ELSE s

TrimLeft(s) == DropFirst(s, NextNot(s, 1, Whitespace) - 1)

Split(s, sep) ==
    LET raw == SplitRaw(s, sep)
    IN  [k \in DOMAIN raw |->
            LET a == IF k < Len(raw) THEN TrimRight(raw[k]) ELSE raw[k]
            IN  IF k > 1 THEN TrimLeft(a) ELSE a]

-----------------------------------------------------------------------------
(* Mutators *)

\* v.replace(/[^0-9A-Za-z\s]+/g, ' ')
RECURSIVE alphaNumericOnly(_)
alphaNumericOnly(v) ==
    LET keep == Digits \cup Upper \cup Lower \cup Whitespace
    IN  IF v = <<>> THEN <<>>
        ELSE IF v[1] \in keep THEN <<v[1]>> \o alphaNumericOnly(Tail(v))
        ELSE <<" ">> \o alphaNumericOnly(DropFirst(v, NextNot(v, 1, AllChars \ keep) - 1))

\* v.replace(/[^0-9]+/g, '')
numericOnly(v) == Filter(v, Digits)

\* v.toLowerCase()
noCase(v) == [k \in DOMAIN v |-> LowerOf(v[k])]

\* _.deburr(v): Latin-1 letters to basic Latin letters.
deburr(v) ==
    [k \in DOMAIN v |->
        CASE v[k] = "Otilde" -> "O"
          [] v[k] = "Ntilde" -> "N"
          [] OTHER -> v[k]]

HTTPS == <<"h", "t", "t", "p", "s", ":", "/", "/">>
HTTP == <<"h", "t", "t", "p", ":", "/", "/">>
DOIORG == <<"d", "o", "i", ".", "o", "r", "g", "/">>

\* /^https?:\/\/doi.org\//.test(u): the dot of the pattern matches any code unit.
LooksLikeDoiUrl(u) ==
    LET rest == IF StartsWith(u, HTTPS) THEN DropFirst(u, Len(HTTPS))
                ELSE IF StartsWith(u, HTTP) THEN DropFirst(u, Len(HTTP))
                ELSE <<>>
    IN  /\ StartsWith(u, HTTPS) \/ StartsWith(u, HTTP)
        /\ Len(rest) >= Len(DOIORG)
        /\ \A k \in DOMAIN DOIORG : DOIORG[k] = "." \/ rest[k] = DOIORG[k]

\* s.replace(/^http:/, 'https:')
HttpToHttps(s) ==
    IF StartsWith(s, <<"h", "t", "t", "p", ":">>)
    THEN <<"h", "t", "t", "p", "s">> \o DropFirst(s, 4)
    ELSE s

\* doiRewrite.handler(v, ref); ref is the original record.
doiRewrite(v, ref) ==
    IF v # <<>>
    THEN IF StartsWith(v, HTTPS) THEN v
         ELSE IF StartsWith(v, HTTP) THEN HttpToHttps(v)
         ELSE HTTPS \o DOIORG \o v
    ELSE LET urls == IF Get(ref, "urls").t = "arr" THEN Get(ref, "urls").v ELSE <<>>
             hits == {k \in DOMAIN urls : LooksLikeDoiUrl(urls[k].v)}
         IN  IF hits = {} THEN <<>>
             ELSE HttpToHttps(urls[CHOOSE k \in hits : \A m \in hits : k <= m].v)

\* /^et\.?\s*al/i.test(name)
LooksLikeEtAl(name) ==
    LET low == noCase(name)
        k == IF Len(low) >= 3 /\ low[3] = "." THEN 4 ELSE 3
        a == NextNot(low, k, Whitespace)
    IN  /\ StartsWith(low, <<"e", "t">>)
        /\ a + 1 <= Len(low) /\ low[a] = "a" /\ low[a + 1] = "l"

RECURSIVE DropRightWhileEtAl(_)
DropRightWhileEtAl(names) ==
    IF names # <<>> /\ LooksLikeEtAl(names[Len(names)])
    THEN DropRightWhileEtAl(SubSeq(names, 1, Len(names) - 1))
    ELSE names

\* first.substr(0, 1).toUpperCase() + '. ' + _.upperFirst(last)
InitialLast(first, last) == <<UpperOf(first), ".", " ">> \o <<UpperOf(last[1])>> \o Tail(last)

\* The position of the trailing [A-Z][a-z]+$ of name, 0 when there is none.
TrailingLast(name) ==
    LET caps == {k \in DOMAIN name : name[k] \in Upper}
        p == CHOOSE k \in caps : \A m \in caps : m <= k
    IN  IF caps # {} /\ CapLower(SubSeq(name, p, Len(name))) THEN p ELSE 0

\* One name of the `Last, F. M.` list (the input holds a semicolon).
RewriteLastFirst(name) ==
    LET e == NextNot(name, 2, Lower)
        k == IF e <= Len(name) /\ name[e] = "," THEN e + 1 ELSE e
        w == NextNot(name, k, Whitespace)
    IN  IF /\ name # <<>> /\ name[1] \in Upper /\ e >= 3
           /\ w > k /\ w <= Len(name) /\ name[w] \in Upper
        THEN InitialLast(name[w], SubSeq(name, 1, e - 1))
        ELSE name

\* One name of the comma-separated list: the first of the four formats that
\* matches, in their order.
RewriteName(name) ==
    LET e == NextNot(name, 2, Lower)
        w == NextNot(name, e, Whitespace)
        d == IF Len(name) >= 2 /\ name[2] = "." THEN 3 ELSE 2
        p == TrailingLast(name)
        capsAfter == {k \in e + 1 .. Len(name) : name[k] \in Upper}
        word == name # <<>> /\ name[1] \in Upper /\ e >= 3
        spaced == word /\ e <= Len(name) /\ name[e] \in Whitespace
    IN  IF name = <<>> \/ name[1] \notin Upper THEN name
        ELSE IF word /\ w > e /\ CapLower(SubSeq(name, w, Len(name)))      \* First Last
             THEN InitialLast(name[1], SubSeq(name, w, Len(name)))
        ELSE IF d <= Len(name) /\ name[d] \in Whitespace /\ p >= d + 1     \* F. Last
             THEN InitialLast(name[1], SubSeq(name, p, Len(name)))
        ELSE IF spaced /\ p >= e + 1                                       \* First Middle Last
             THEN InitialLast(name[1], SubSeq(name, p, Len(name)))
        ELSE IF spaced /\ capsAfter # {}                                   \* Last F.
             THEN InitialLast(name[CHOOSE k \in capsAfter : \A m \in capsAfter : k <= m],
                              SubSeq(name, 1, e - 1))
        ELSE name

\* authorRewrite.handler(v)
authorRewrite(v) ==
    IF \E k \in DOMAIN v : v[k] = ";"
    THEN LET names == DropRightWhileEtAl(Split(v, ";"))
         IN  Join([k \in DOMAIN names |-> RewriteLastFirst(names[k])], <<",", " ">>)
    ELSE LET names == DropRightWhileEtAl(Split(v, ","))
         IN  Join([k \in DOMAIN names |-> RewriteName(names[k])], <<",", " ">>)

\* \p{Pd}: dash punctuation.
Dashes == {"-"}

\* /^(?<from>\d+)\s*(\p{Pd}+(?<to>\d+)\s*)?$/u.exec(v)?.groups, with the empty
\* string for a group that did not take part and matched FALSE for no match.
PageGroups(v) ==
    LET a == NextNot(v, 1, Digits)
        b == NextNot(v, a, Whitespace)
        c == NextNot(v, b, Dashes)
        d == NextNot(v, c, Digits)
        e == NextNot(v, d, Whitespace)
    IN  IF a = 1 THEN [matched |-> FALSE]
        ELSE IF b = Len(v) + 1
        THEN [matched |-> TRUE, from |-> SubSeq(v, 1, a - 1), to |-> <<>>]
        ELSE IF c > b /\ d > c /\ e = Len(v) + 1
        THEN [matched |-> TRUE, from |-> SubSeq(v, 1, a - 1), to |-> SubSeq(v, c, d - 1)]
        ELSE [matched |-> FALSE]

\* String.prototype.substring(0, end)
SubstringTo(s, end) ==
    IF end <= 0 THEN <<>> ELSE IF end >= Len(s) THEN s ELSE SubSeq(s, 1, end)

consistentPageNumberingUnpadded(v) ==
    LET pages == PageGroups(v)
    IN  IF pages.matched /\ pages.to # <<>> THEN pages.from \o <<"-">> \o pages.to
        ELSE IF pages.matched THEN pages.from
        ELSE <<>>

\* consistentPageNumbering.handler(v)
consistentPageNumbering(v) ==
    LET pages == PageGroups(v)
    IN  IF pages.matched /\ pages.from # <<>> /\ pages.to # <<>>
        THEN LET offset == Len(pages.from) - Len(pages.to)
                 prefix == SubstringTo(pages.from, offset)
             IN  pages.from \o <<"-">> \o prefix \o pages.to
        ELSE IF pages.matched /\ pages.from # <<>> THEN pages.from
        ELSE <<>>

\* this.mutators[mutator].handler(value, original)
MutatorHandler(mutator, value, original) ==
    CASE mutator = "alphaNumericOnly" -> alphaNumericOnly(value)
      [] mutator = "authorRewrite" -> authorRewrite(value)
      [] mutator = "deburr" -> deburr(value)
      [] mutator = "noCase" -> noCase(value)
      [] mutator = "doiRewrite" -> doiRewrite(value, original)
      [] mutator = "numericOnly" -> numericOnly(value)
      [] mutator = "consistentPageNumbering" -> consistentPageNumbering(value)

-----------------------------------------------------------------------------
(* Enumerations and comparisons *)

\* Dedupe.ACTIONS (ACTIONS is a reserved word)
DedupeACTIONS == [STATS |-> 0, MARK |-> 1, DELETE |-> 2]
DUPEREF == [INDEX |-> 0, RECNUMBER |-> 1]
FIELDWEIGHT == [MINIMUM |-> 0, AVERAGE |-> 1]

\* Object.values(<enumeration>)
ObjectValues(enum) == {enum[k] : k \in DOMAIN enum}

\* JSON.stringify(a) == JSON.stringify(b) for two arrays of strings.
JsonEqual(a, b) == a.v = b.v

\* a == b (loose equality) for strings, arrays of strings, numbers and undefined.
LooseEq(a, b) ==
    CASE a.t = "undef" /\ b.t = "undef" -> TRUE
      [] a.t = "undef" \/ b.t = "undef" -> FALSE
      [] a.t = "str" /\ b.t = "str" -> a.v = b.v
      [] a.t = "num" /\ b.t = "num" -> a = b
      [] a.t = "arr" /\ b.t = "str" -> Join([k \in DOMAIN a.v |-> a.v[k].v], <<",">>) = b.v
      [] a.t = "str" /\ b.t = "arr" -> a.v = Join([k \in DOMAIN b.v |-> b.v[k].v], <<",">>)
      [] OTHER -> FALSE

\* a === b (strict equality); two arrays are two objects.
StrictEq(a, b) ==
    CASE a.t = "arr" \/ b.t = "arr" -> FALSE
      [] OTHER -> a = b

\* comparisons.exact.handler(a, b)
exact(a, b) ==
    IF a.t = "arr" /\ b.t = "arr" THEN Bool(JsonEqual(a, b))
    ELSE IF LooseEq(a, b) THEN Num(1) ELSE Num(0)

\* comparisons.exactTruncate.handler(a, b), for two strings.
exactTruncate(a, b) ==
    LET m == IF Len(a.v) < Len(b.v) THEN Len(a.v) ELSE Len(b.v)
    IN  IF SubSeq(a.v, 1, m) = SubSeq(b.v, 1, m) THEN Num(1) ELSE Num(0)

\* The values _.random(0, 1, true) is drawn from: the two ends of [0, 1] and
\* one value inside.
RandomValues == {Num(0), Rat(1, 2), Num(1)}

\* this.comparisons[comparison].handler(a, b); draw is the value the random
\* comparison draws in this call.
ComparisonHandler(comparison, a, b, draw) ==
    CASE comparison = "exact" -> exact(a, b)
      [] comparison = "exactTruncate" -> exactTruncate(a, b)
      [] comparison = "random" -> draw

Comparisons == {"exact", "exactTruncate", "random"}

\* (step.skipOmitted ?? true) && (!a[field] || !b[field]) ? 0 : handler(a[field], b[field])
FieldScore(a, b, step, field, draw) ==
    IF (IF "skipOmitted" \in DOMAIN step THEN step.skipOmitted ELSE TRUE)
       /\ (~Truthy(Get(a, field)) \/ ~Truthy(Get(b, field)))
    THEN Num(0)
    ELSE ComparisonHandler(step.comparison, Get(a, field), Get(b, field), draw)

\* compareViaStepAvg(a, b, step): the reducer returns the score of the field
\* it is called with and ignores the accumulator, so the reduction yields the
\* score of the last field (0 for no field); x / 0 is NaN, written Undef.
compareViaStepAvg(a, b, step, draws) ==
    LET len == Len(step.fields)
        last == IF len = 0 THEN Num(0)
                ELSE FieldScore(a, b, step, step.fields[len], draws[len])
    IN  IF len = 0 THEN Undef ELSE RatDivInt(ToNumber(last), len)

\* compareViaStepMin(a, b, step): `score < minimum` converts a boolean score
\* to a number for the test; the assignment keeps the boolean.
RECURSIVE MinFrom(_, _, _, _, _, _)
MinFrom(minimum, k, a, b, step, draws) ==
    IF k > Len(step.fields) THEN minimum
    ELSE LET score == FieldScore(a, b, step, step.fields[k], draws[k])
         IN  MinFrom(IF RatLess(ToNumber(score), ToNumber(minimum)) THEN score ELSE minimum,
                     k + 1, a, b, step, draws)

compareViaStepMin(a, b, step, draws) == MinFrom(Num(1), 1, a, b, step, draws)

\* dupeScore > 0
Positive(x) == x.t # "undef" /\ RatLess(Num(0), ToNumber(x))

-----------------------------------------------------------------------------
(* Sorting: _.sortBy(refs, step.sort) *)

\* A step's sort: absent (Undef), a field name, or a list of field names.
SortField(name) == [t |-> "name", v |-> name]
SortList(names) == [t |-> "list", v |-> names]

\* The iteratees of sortBy: none (the identity) for an absent sort or an empty list.
SortKeys(sort) ==
    CASE sort.t = "name" -> <<sort.v>>
      [] sort.t = "list" -> sort.v
      [] OTHER -> <<>>

\* lodash compareAscending(value, other) > 0 and < 0: undefined sorts last.
ValueGreater(value, other) ==
    CASE value.t = "undef" -> other.t # "undef"
      [] value.t = "str" /\ other.t = "str" -> StrLess(other.v, value.v)
      [] value.t = "num" /\ other.t = "num" -> RatLess(other, value)
      [] OTHER -> FALSE

CompareAscending(value, other) ==
    IF ValueGreater(value, other) THEN 1
    ELSE IF ValueGreater(other, value) THEN -1
    ELSE 0

\* lodash compareMultiple: the first key that tells the two apart decides.
RECURSIVE CompareMultiple(_, _, _)
CompareMultiple(a, b, keys) ==
    IF keys = <<>> THEN 0
    ELSE LET c == CompareAscending(Get(a, keys[1]), Get(b, keys[1]))
         IN  IF c # 0 THEN c ELSE CompareMultiple(a, b, Tail(keys))

\* Insert position p into the sorted list of positions, after everything that
\* does not sort after it (the sort is stable).
RECURSIVE InsertSorted(_, _, _, _)
InsertSorted(sorted, p, recs, keys) ==
    IF sorted = <<>> THEN <<p>>
    ELSE IF CompareMultiple(recs[sorted[Len(sorted)]], recs[p], keys) <= 0
         THEN Append(sorted, p)
         ELSE Append(InsertSorted(SubSeq(sorted, 1, Len(sorted) - 1), p, recs, keys),
                     sorted[Len(sorted)])

RECURSIVE SortPrefix(_, _, _)
SortPrefix(k, recs, keys) ==
    IF k = 0 THEN <<>>
    ELSE CHOOSE sorted \in {InsertSorted(prefix, k, recs, keys) :
                                prefix \in {SortPrefix(k - 1, recs, keys)}} : TRUE

\* The positions of recs in sorted order.
\* The records left in the order they have.
SortByNothing(recs, sort) == [k \in DOMAIN recs |-> k]

SortBy(recs, sort) == SortPrefix(Len(recs), recs, SortKeys(sort))

\* !sortedBy || sortedBy != step.sort : two lists are two objects; a list
\* is compared with a name as its elements joined by commas.
SortNeeded(by, sort) ==
    \/ by.t = "undef"
    \/ by.t = "name" /\ by.v = ""
    \/ CASE sort.t = "undef" -> TRUE
         [] by.t = "name" /\ sort.t = "name" -> by.v # sort.v
         [] by.t = "list" /\ sort.t = "list" -> TRUE
         [] by.t = "list" -> Len(by.v) # 1 \/ by.v[1] # sort.v
         [] OTHER -> Len(sort.v) # 1 \/ sort.v[1] # by.v

\* ref[step.sort]: the sort as a property name. A list becomes its elements
\* joined by commas, which names a field only when it has one element; an
\* absent sort becomes the name "undefined".
SortValue(ref, sort) ==
    CASE sort.t = "name" -> Get(ref, sort.v)
      [] sort.t = "list" /\ Len(sort.v) = 1 -> Get(ref, sort.v[1])
      [] OTHER -> Undef

-----------------------------------------------------------------------------
(* Strategies.  A descriptor and a step are objects: functions from the    *)
(* property names they have to values.  A mutator chain is written as a    *)
(* list (_.castArray makes a single name a list of one).                   *)

bramer ==
    [title |-> "Bramer et. al.",
     description |-> "Bramer et. al. deduplication sweep strategy",
     mutators |-> [author |-> <<"authorRewrite">>,
                   doi |-> <<"doiRewrite">>,
                   title |-> <<"deburr", "alphaNumericOnly", "noCase">>,
                   year |-> <<"numericOnly">>],
     steps |-> <<
        [fields |-> <<"doi">>, sort |-> SortField("doi"), comparison |-> "exact"],
        [fields |-> <<"author", "year", "title", "journal">>, sort |-> SortField("title"), comparison |-> "exact"],
        [fields |-> <<"author", "year", "title", "pages">>, sort |-> SortField("pages"), comparison |-> "exact"],
        [fields |-> <<"title", "volume", "pages">>, sort |-> SortField("title"), comparison |-> "exact"],
        [fields |-> <<"authors", "volume", "pages">>, sort |-> SortField("title"), comparison |-> "exact"],
        [fields |-> <<"year", "volume", "issue", "pages">>, sort |-> SortField("title"), comparison |-> "exact"],
        [fields |-> <<"title">>, sort |-> SortField("title"), comparison |-> "exact"],
        [fields |-> <<"authors", "year">>, sort |-> SortField("title"), comparison |-> "exact"]>>]

\* !strategy[f]
Missing(obj, f) ==
    \/ f \notin DOMAIN obj
    \/ f \in {"title", "description", "comparison"} /\ obj[f] = ""
    \/ f = "sort" /\ obj[f].t = "name" /\ obj[f].v = ""

\* The errors validateStrategy pushes for step number k (1-based), in order:
\* `Step #k contains no fields` is the message with `at` k.
StepErrors(step, k) ==
    (IF Missing(step, "fields") \/ Len(step.fields) = 0
     THEN <<[msg |-> "Step contains no fields", at |-> k]>> ELSE <<>>)
    \o (IF Missing(step, "sort")
        THEN <<[msg |-> "Step contains no sort field(s)", at |-> k]>> ELSE <<>>)
    \o (IF ~Missing(step, "sort") /\ step.sort.t = "list" /\ Len(step.sort.v) = 0
        THEN <<[msg |-> "Step contains a blank sort field list", at |-> k]>> ELSE <<>>)
    \o (IF Missing(step, "comparison")
        THEN <<[msg |-> "Step contains no comparison", at |-> k]>> ELSE <<>>)

RECURSIVE AllStepErrors(_, _)
AllStepErrors(steps, k) ==
    IF k > Len(steps) THEN <<>>
    ELSE StepErrors(steps[k], k) \o AllStepErrors(steps, k + 1)

\* The errors of the first loop: one per missing descriptor field.
FieldErrors(strat) ==
    LET F == <<"title", "description", "mutators", "steps">>
        E(k) == IF Missing(strat, F[k])
                THEN <<[msg |-> "Field " \o F[k] \o " is missing", at |-> 0]>> ELSE <<>>
    IN  E(1) \o E(2) \o E(3) \o E(4)

\* A validation that stops at the first violation.
validateStrategyFirst(strat) ==
    IF "steps" \notin DOMAIN strat
    THEN [kind |-> "throw", error |-> "TypeError"]
    ELSE LET errs == FieldErrors(strat)
                     \o (IF Len(strat.steps) = 0
                         THEN <<[msg |-> "Should contain at least one step", at |-> 0]>>
                         ELSE <<>>)
                     \o AllStepErrors(strat.steps, 1)
         IN  IF Len(errs) > 0 THEN [kind |-> "errs", errs |-> <<errs[1]>>] ELSE [kind |-> "true"]

\* validateStrategy(strategy): [kind |-> "true"], [kind |-> "errs", errs |-> ...]
\* or, where the code throws, [kind |-> "throw"]. `strategy.steps.length` is
\* read whether or not steps is present.
validateStrategy(strat) ==
    IF "steps" \notin DOMAIN strat
    THEN [kind |-> "throw", error |-> "TypeError"]
    ELSE LET errs == FieldErrors(strat)
                     \o (IF Len(strat.steps) = 0
                         THEN <<[msg |-> "Should contain at least one step", at |-> 0]>>
                         ELSE <<>>)
                     \o AllStepErrors(strat.steps, 1)
         IN  IF Len(errs) > 0 THEN [kind |-> "errs", errs |-> errs] ELSE [kind |-> "true"]

-----------------------------------------------------------------------------
(* The inputs of the model: the strategies registered in the catalog, the  *)
(* records the input sequences are made of, and the settings.              *)

\* A strategy whose one step draws its scores at random.
rand ==
    [title |-> "Random", description |-> "One random step",
     mutators |-> [title |-> <<"noCase">>],
     steps |-> <<[fields |-> <<"title">>, sort |-> SortField("year"), comparison |-> "random"]>>]

\* A strategy whose sorts are lists of field names; its first step also
\* compares omitted fields.
listed ==
    [title |-> "Listed", description |-> "Sorts by lists of fields",
     mutators |-> [year |-> <<"numericOnly">>],
     steps |-> <<[fields |-> <<"pages", "year">>, sort |-> SortList(<<"year", "title">>),
                  comparison |-> "exact", skipOmitted |-> FALSE],
                 [fields |-> <<"title">>, sort |-> SortList(<<"title">>),
                  comparison |-> "exactTruncate"]>>]

\* Malformed descriptors.
noSteps == [title |-> "No steps", description |-> "Lacks the steps", mutators |-> <<>>]
emptySteps == [title |-> "Empty", description |-> "Has no step", mutators |-> <<>>, steps |-> <<>>]
sloppy ==
    [description |-> "", mutators |-> [title |-> <<"noCase">>],
     steps |-> <<[fields |-> <<"title">>, sort |-> SortField("title")],
                 [sort |-> SortList(<<>>), comparison |-> "exact"]>>]

\* Dedupe.strategies
Catalog ==
    [bramer |-> bramer, rand |-> rand, listed |-> listed,
     noSteps |-> noSteps, emptySteps |-> emptySteps, sloppy |-> sloppy]

\* The strategy names a caller may set: the catalog's and one it lacks.
StrategyNames == DOMAIN Catalog \cup {"clark"}

DOI_A == <<"1", "0", ".", "1", "/", "a">>

\* The records of the input sequences.
RecA ==
    [doi |-> Str(DOI_A), title |-> Str(<<"A", "b">>), year |-> Str(<<"1", "9", "9", "9">>),
     authors |-> Arr(<<Str(<<"X">>)>>)]
RecB ==
    [doi |-> Str(HTTP \o DOIORG \o DOI_A), title |-> Str(<<"a", "b">>),
     year |-> Str(<<"c", "1", "9", "9", "9">>), authors |-> Arr(<<Str(<<"X">>)>>),
     refNumber |-> Num(2)]
RecC ==
    [title |-> Str(<<"A", "$", "B">>), volume |-> Str(<<"7">>), pages |-> Str(<<"1", "-", "5">>)]

Pool == {RecA, RecB, RecC}

\* The records of the runs of the random strategy.
RandomPool == {RecA, RecB}

-----------------------------------------------------------------------------
(* The engine: the runs of the one instance.  Every .then() callback of  *)
(* run() is an action; the sweep callback is cut at its loop heads, and no *)
(* other callback runs while one is inside it.                             *)

Runs == {1, 2, 3}

Hole == [t |-> "hole"]
DedupeObj(addr) == [t |-> "dedupe", steps |-> addr]
Ref(k) == [t |-> "ref", k |-> k]

\* array[idx] = value, for a 0-based idx: the array grows with holes.
SetAt(array, idx, value) ==
    [k \in 1 .. (IF idx + 1 > Len(array) THEN idx + 1 ELSE Len(array)) |->
        IF k = idx + 1 THEN value
        ELSE IF k <= Len(array) THEN array[k] ELSE Hole]

\* array[idx], for a 0-based idx: undefined at a hole and past the end.
At(array, idx) ==
    IF idx + 1 <= Len(array) /\ array[idx + 1] # Hole THEN array[idx + 1] ELSE Undef

RECURSIVE Reduce(_, _, _)
\* _.castArray(mutators).reduce((value, mutator) => handler(value, original), value)
Reduce(chain, value, original) ==
    IF chain = <<>> THEN value
    ELSE Reduce(Tail(chain), MutatorHandler(chain[1], value, original), original)

\* _.mapValues(strategy.mutators, ...): the mutated fields of one record.
MutatedFields(strat, original) ==
    IF "mutators" \notin DOMAIN strat THEN <<>>
    ELSE [field \in DOMAIN strat.mutators |->
            Str(Reduce(strat.mutators[field],
                       IF Truthy(Get(original, field)) THEN original[field].v ELSE <<>>,
                       original))]

\* The working record of the k-th input record (k from 1; index is k - 1):
\* {original, index, recNumber, dedupe: {steps: []}, ...original, ...mutated}
\* Later properties replace earlier ones of the same name.
WorkingRecord(strat, original, k, addr) ==
    MutatedFields(strat, original)
    @@ original
    @@ [original |-> Ref(k),
        index |-> Num(k - 1),
        recNumber |-> IF Truthy(Get(original, "refNumber")) THEN original.refNumber ELSE Num(k),
        dedupe |-> DedupeObj(addr)]

\* ref.dedupe.steps as a heap address; <<>> when ref.dedupe has no steps
\* property (reading an element of it throws a TypeError).
StepsOf(ref) == IF ref.dedupe.t = "dedupe" THEN ref.dedupe.steps ELSE <<>>

Fail(r, kind, msgs) ==
    /\ pc' = [pc EXCEPT ![r] = "failed"]
    /\ error' = [error EXCEPT ![r] = [kind |-> kind, msgs |-> msgs]]

\* A callback that runs whatever the other runs are inside of.
CallbackAlways(r) == TRUE

\* No other run is inside its sweep callback.
CallbackMayRun(r) == \A q \in Runs \ {r} : pc[q] \notin {"step", "scan"}

runState == <<strategy, output, refs, sortedRefs, sortedBy, stepIndex, i, n, compared>>
direct == <<validated, verdict, argument, returned>>

\* run(input), line 547: the strategy is looked up when run() is called. A
\* run that is "later" is called once the first run has settled.
Run(r) ==
    /\ \/ pc[r] = "idle"
       \/ pc[r] = "later" /\ pc[1] \in {"done", "failed"}
    /\ CallbackMayRun(r)
    /\ pc' = [pc EXCEPT ![r] = "checks"]
    /\ strategy' = [strategy EXCEPT ![r] = Get(Catalog, settings.strategy)]
    /\ UNCHANGED direct
    /\ UNCHANGED <<settings, input, heap, throttled, output, refs, sortedRefs, sortedBy,
                   stepIndex, i, n, compared, events, result, error>>

\* Lines 551-557: the settings checks; a path is handed to reflib, a name the
\* module does not import.
Checks(r) ==
    /\ pc[r] = "checks"
    /\ CallbackMayRun(r)
    /\ IF settings.action \notin ObjectValues(DedupeACTIONS)
       THEN Fail(r, "Error", <<"Invalid action">>)
       ELSE IF settings.dupeRef \notin ObjectValues(DUPEREF)
       THEN Fail(r, "Error", <<"Invalid dupeRef">>)
       ELSE IF input.kind = "path"
       THEN Fail(r, "ReferenceError", <<"reflib is not defined">>)
       ELSE pc' = [pc EXCEPT ![r] = "sanity"] /\ UNCHANGED error
    /\ UNCHANGED direct
    /\ UNCHANGED <<settings, input, heap, throttled, runState, events, result>>

\* Lines 559-564: sanity checks, against the settings as they are now.
Sanity(r) ==
    /\ pc[r] = "sanity"
    /\ CallbackMayRun(r)
    /\ IF input.kind # "array"
       THEN Fail(r, "Error", <<"Input is not an array">>) /\ UNCHANGED output
       ELSE IF settings.strategy \notin DOMAIN Catalog
       THEN Fail(r, "Error", <<"Unknown strategy specified">>) /\ UNCHANGED output
       ELSE IF "steps" \notin DOMAIN Catalog[settings.strategy]
       THEN Fail(r, "Error", <<"Invalid strategy schema">>) /\ UNCHANGED output
       ELSE /\ pc' = [pc EXCEPT ![r] = "validate"]
            /\ output' = [output EXCEPT ![r] = input.recs]
            /\ UNCHANGED error
    /\ UNCHANGED direct
    /\ UNCHANGED <<settings, input, heap, throttled, strategy, refs, sortedRefs, sortedBy,
                   stepIndex, i, n, compared, events, result>>

\* Lines 567-573: validation of the captured strategy.
Validate(r) ==
    /\ pc[r] = "validate"
    /\ CallbackMayRun(r)
    /\ IF ~settings.validateStrategy
       THEN pc' = [pc EXCEPT ![r] = "mutate"] /\ UNCHANGED error
       ELSE IF strategy[r] = Undef
       THEN Fail(r, "TypeError", <<"strategy is undefined">>)
       ELSE LET sErrs == validateStrategy(strategy[r])
            IN  CASE sErrs.kind = "true" -> pc' = [pc EXCEPT ![r] = "mutate"] /\ UNCHANGED error
                  [] sErrs.kind = "throw" -> Fail(r, sErrs.error, <<"strategy.steps is undefined">>)
                  [] OTHER -> Fail(r, "Error", sErrs.errs)
    /\ UNCHANGED direct
    /\ UNCHANGED <<settings, input, heap, throttled, runState, events, result>>

\* Lines 576-590: the working records. Record k of run r gets the fresh
\* array <<r, k>> for its dedupe.steps.
Mutate(r) ==
    /\ pc[r] = "mutate"
    /\ CallbackMayRun(r)
    /\ IF strategy[r] = Undef /\ Len(output[r]) > 0
       THEN Fail(r, "TypeError", <<"strategy is undefined">>) /\ UNCHANGED <<refs, heap>>
       ELSE /\ refs' = [refs EXCEPT ![r] =
                    [k \in DOMAIN output[r] |-> WorkingRecord(strategy[r], output[r][k], k, <<r, k>>)]]
            /\ heap' = [a \in {<<r, k>> : k \in DOMAIN output[r]} |-> <<>>] @@ heap
            /\ pc' = [pc EXCEPT ![r] = "sweep"]
            /\ UNCHANGED error
    /\ UNCHANGED direct
    /\ UNCHANGED <<settings, input, throttled, strategy, output, sortedRefs, sortedBy,
                   stepIndex, i, n, compared, events, result>>

\* Lines 592-595: the sweep callback starts: runMutated is emitted.
SweepStart(r) ==
    /\ pc[r] = "sweep"
    /\ CallbackMayRun(r)
    /\ events' = [events EXCEPT ![r].runMutated = @ + 1]
    /\ sortedBy' = [sortedBy EXCEPT ![r] = Undef]
    /\ stepIndex' = [stepIndex EXCEPT ![r] = 0]
    /\ IF strategy[r] = Undef
       THEN Fail(r, "TypeError", <<"strategy is undefined">>)
       ELSE pc' = [pc EXCEPT ![r] = "step"] /\ UNCHANGED error
    /\ UNCHANGED direct
    /\ UNCHANGED <<settings, input, heap, throttled, strategy, output, refs, sortedRefs,
                   i, n, compared, result>>

StepSort(step) == Get(step, "sort")

\* Lines 597-604: the head of one step: sort if needed, reset the cursors.
\* After the last step the callback returns refs.
StepBegin(r) ==
    /\ pc[r] = "step"
    /\ IF stepIndex[r] >= Len(strategy[r].steps)
       THEN /\ pc' = [pc EXCEPT ![r] = "aggregate"]
            /\ UNCHANGED <<sortedRefs, sortedBy, i, n, compared>>
       ELSE LET step == strategy[r].steps[stepIndex[r] + 1]
                resort == SortNeeded(sortedBy[r], StepSort(step))
            IN  /\ sortedRefs' = [sortedRefs EXCEPT ![r] =
                        IF resort THEN SortBy(refs[r], StepSort(step)) ELSE @]
                /\ sortedBy' = [sortedBy EXCEPT ![r] = IF resort THEN StepSort(step) ELSE @]
                /\ i' = [i EXCEPT ![r] = 0]
                /\ n' = [n EXCEPT ![r] = 1]
                /\ compared' = [compared EXCEPT ![r] = <<>>]
                /\ pc' = [pc EXCEPT ![r] = "scan"]
    /\ UNCHANGED direct
    /\ UNCHANGED <<settings, input, heap, throttled, strategy, output, refs, stepIndex,
                   events, result, error>>

\* step.comparison as a name: undefined names no registered comparison.
StepComparison(step) == IF "comparison" \in DOMAIN step THEN step.comparison ELSE "undefined"

\* The sets the draws of one comparison are taken from: one draw per field
\* for the random comparison, none otherwise.
DrawSpace(step) ==
    IF "fields" \in DOMAIN step /\ StepComparison(step) = "random"
    THEN [DOMAIN step.fields -> RandomValues]
    ELSE {[k \in (IF "fields" \in DOMAIN step THEN DOMAIN step.fields ELSE {}) |-> Num(0)]}

\* A field of the step whose comparison handler is called.
Called(a, b, step, field) ==
    ~((IF "skipOmitted" \in DOMAIN step THEN step.skipOmitted ELSE TRUE)
      /\ (~Truthy(Get(a, field)) \/ ~Truthy(Get(b, field))))

\* The comparison of a and b throws a TypeError: the step has no fields, or a
\* handler is called that is not registered, or exactTruncate is called with
\* a value that is not a string.
CompareThrows(a, b, step) ==
    \/ "fields" \notin DOMAIN step
    \/ \E k \in DOMAIN step.fields :
          /\ Called(a, b, step, step.fields[k])
          /\ \/ StepComparison(step) \notin Comparisons
             \/ /\ step.comparison = "exactTruncate"
                /\ Get(a, step.fields[k]).t # "str" \/ Get(b, step.fields[k]).t # "str"

\* Lines 608-610
DupeScore(a, b, step, draws) ==
    IF settings.fieldWeight = FIELDWEIGHT.MINIMUM
    THEN compareViaStepMin(a, b, step, draws)
    ELSE compareViaStepAvg(a, b, step, draws)

\* The anchor's entry holding the score of the match, whatever markOriginal.
OriginalEntryScored(dupeScore) == [score |-> dupeScore]

\* Lines 614, 619, 624: the entries written for the anchor and the candidate.
OriginalEntry(dupeScore) == [score |-> IF settings.markOriginal THEN dupeScore ELSE Num(0)]
DupeEntry(dupeScore, anchor) ==
    [score |-> dupeScore,
     dupeOf |-> IF settings.dupeRef = DUPEREF.RECNUMBER THEN anchor.recNumber ELSE anchor.index]

\* Lines 613-615: the anchor's entry is written if it has none.
MarkAnchor(h, a, s, dupeScore) ==
    IF At(h[StepsOf(a)], s) = Undef
    THEN [h EXCEPT ![StepsOf(a)] = SetAt(@, s, OriginalEntry(dupeScore))]
    ELSE h

\* The backreference written to the anchor, naming the candidate.
MarkCandidateSwapped(h, a, b, s, dupeScore) ==
    [h EXCEPT ![StepsOf(a)] = SetAt(@, s, DupeEntry(dupeScore, b))]

\* The candidate's entry written at every match, whatever it held.
MarkCandidateLatest(h, a, b, s, dupeScore) ==
    [h EXCEPT ![StepsOf(b)] = SetAt(@, s, DupeEntry(dupeScore, a))]

\* Lines 617-625: the candidate's entry is written if it has none or if the
\* new score is at least the recorded one.
MarkCandidate(h, a, b, s, dupeScore) ==
    IF \/ At(h[StepsOf(b)], s) = Undef
       \/ RatLeq(ToNumber(At(h[StepsOf(b)], s).score), ToNumber(dupeScore))
    THEN [h EXCEPT ![StepsOf(b)] = SetAt(@, s, DupeEntry(dupeScore, a))]
    ELSE h

\* Lines 626-630 and 633-637: n++, and at the end i++, n = i + 1.
NextCandidate(r, len) ==
    IF n[r] + 1 >= len
    THEN i' = [i EXCEPT ![r] = @ + 1] /\ n' = [n EXCEPT ![r] = i[r] + 2]
    ELSE n' = [n EXCEPT ![r] = @ + 1] /\ UNCHANGED i

\* The cursors set back to the first candidate of the same anchor.
NextAnchorAgain(r) ==
    n' = [n EXCEPT ![r] = i[r] + 1] /\ UNCHANGED i

\* Lines 640-641: i++, n = i + 1.
NextAnchor(r) ==
    i' = [i EXCEPT ![r] = @ + 1] /\ n' = [n EXCEPT ![r] = i[r] + 2]

\* Line 607: emitProgress is _.throttle(..., 100, {trailing: false}): the
\* first call of the instance emits; a later call emits or not, with the clock.
EmitProgress(r) ==
    /\ throttled' = TRUE
    /\ \E emitted \in (IF throttled THEN BOOLEAN ELSE {TRUE}) :
          events' = [events EXCEPT ![r].progress = @ \/ emitted]

\* Lines 605-646: one iteration of the while loop; when the loop ends, the
\* next step.
ScanIter(r) ==
    /\ pc[r] = "scan"
    /\ LET len == Len(sortedRefs[r])
           s == stepIndex[r]
           step == strategy[r].steps[s + 1]
       IN  IF n[r] >= len
           THEN /\ stepIndex' = [stepIndex EXCEPT ![r] = @ + 1]
                /\ pc' = [pc EXCEPT ![r] = "step"]
                /\ UNCHANGED <<heap, throttled, i, n, compared, events, error>>
           ELSE LET a == refs[r][sortedRefs[r][i[r] + 1]]
                    b == refs[r][sortedRefs[r][n[r] + 1]]
                IN  /\ EmitProgress(r)
                    /\ IF CompareThrows(a, b, step)
                       THEN /\ Fail(r, "TypeError", <<"comparison">>)
                            /\ UNCHANGED <<heap, i, n, compared>>
                       ELSE \E draws \in DrawSpace(step) :
                            LET dupeScore == DupeScore(a, b, step, draws)
                            IN  /\ compared' = [compared EXCEPT ![r] =
                                       Append(@, [i |-> i[r], n |-> n[r], score |-> dupeScore])]
                                /\ IF Positive(dupeScore)
                                   THEN IF StepsOf(a) = <<>>
                                        THEN /\ Fail(r, "TypeError", <<"dedupe.steps is undefined">>)
                                             /\ UNCHANGED <<heap, i, n>>
                                        ELSE IF StepsOf(b) = <<>>
                                        THEN /\ Fail(r, "TypeError", <<"dedupe.steps is undefined">>)
                                             /\ heap' = MarkAnchor(heap, a, s, dupeScore)
                                             /\ UNCHANGED <<i, n>>
                                        ELSE /\ heap' = MarkCandidate(MarkAnchor(heap, a, s, dupeScore),
                                                                      a, b, s, dupeScore)
                                             /\ NextCandidate(r, len)
                                             /\ UNCHANGED <<pc, error>>
                                   ELSE /\ IF StrictEq(SortValue(a, StepSort(step)),
                                                       SortValue(b, StepSort(step)))
                                           THEN NextCandidate(r, len)
                                           ELSE NextAnchor(r)
                                        /\ UNCHANGED <<heap, pc, error>>
                    /\ UNCHANGED stepIndex
    /\ UNCHANGED direct
    /\ UNCHANGED <<settings, input, strategy, output, refs, sortedRefs, sortedBy, result>>

\* _.sum(steps.map(s => s.score)): holes and undefined are skipped.
RECURSIVE SumScores(_)
SumScores(steps) ==
    IF steps = <<>> THEN Num(0)
    ELSE IF steps[1] = Hole THEN SumScores(Tail(steps))
    ELSE RatAdd(ToNumber(steps[1].score), SumScores(Tail(steps)))

\* The sum of the step scores, not divided.
FinalScoreSummed(steps) == SumScores(steps)

\* Line 655: the final score of a record whose dedupe.steps is steps.
FinalScore(steps) ==
    IF Len(steps) > 0 THEN RatDivInt(SumScores(steps), Len(steps)) ELSE Num(0)

\* Lines 650-657: every record gets a new dedupe object with the score.
Aggregate(r) ==
    /\ pc[r] = "aggregate"
    /\ CallbackMayRun(r)
    /\ IF \E k \in DOMAIN refs[r] : StepsOf(refs[r][k]) = <<>>
       THEN Fail(r, "TypeError", <<"dedupe.steps is undefined">>) /\ UNCHANGED refs
       ELSE /\ refs' = [refs EXCEPT ![r] =
                   [k \in DOMAIN @ |->
                       [@[k] EXCEPT !.dedupe =
                           [t |-> "dedupe", steps |-> StepsOf(refs[r][k]),
                            score |-> FinalScore(heap[StepsOf(refs[r][k])])]]]]
            /\ pc' = [pc EXCEPT ![r] = "dispatch"]
            /\ UNCHANGED error
    /\ UNCHANGED direct
    /\ UNCHANGED <<settings, input, heap, throttled, strategy, output, sortedRefs, sortedBy,
                   stepIndex, i, n, compared, events, result>>

\* _(steps).map('dupeOf').uniq().filter(v => v !== undefined).value()
RECURSIVE DupeOfList(_, _)
DupeOfList(steps, seen) ==
    IF steps = <<>> THEN <<>>
    ELSE IF steps[1] = Hole \/ "dupeOf" \notin DOMAIN steps[1] \/ steps[1].dupeOf \in seen
         THEN DupeOfList(Tail(steps), seen)
         ELSE <<steps[1].dupeOf>> \o DupeOfList(Tail(steps), seen \cup {steps[1].dupeOf})

\* Lines 661-671: the value STATS attaches for the working record ref.
StatsValue(ref) ==
    [t |-> "stats", score |-> ref.dedupe.score, dupeOf |-> DupeOfList(heap[ref.dedupe.steps], {})]

\* The mark of a record whose score has to exceed the threshold.
MarkValueAbove(ref) ==
    IF RatLess(settings.threshold, ref.dedupe.score) THEN settings.markDupe ELSE settings.markOk

\* Lines 676-678: the value MARK attaches for the working record ref.
MarkValue(ref) ==
    IF RatLeq(settings.threshold, ref.dedupe.score) THEN settings.markDupe ELSE settings.markOk

\* Line 682: DELETE keeps the record of the working record ref.
Kept(ref) == RatLess(ref.dedupe.score, settings.threshold)

\* The k-th record of the sorted view, read in place of the k-th record.
WorkingOfSorted(r, k) ==
    IF k \in DOMAIN sortedRefs[r] THEN refs[r][sortedRefs[r][k]] ELSE refs[r][k]

\* The working record the action reads for the k-th input record.
WorkingOf(r, k) == refs[r][k]

\* output.map(...) of STATS and MARK: element k is the k-th input record with
\* the action field set; src is the position of the input record it is built from.
Decorated(r, values) ==
    [k \in DOMAIN output[r] |->
        [src |-> k, rec |-> (settings.actionField :> values[k]) @@ output[r][k]]]

\* output.filter(...) of DELETE.
RECURSIVE Filtered(_, _)
Filtered(r, k) ==
    IF k > Len(output[r]) THEN <<>>
    ELSE (IF Kept(WorkingOf(r, k)) THEN <<[src |-> k, rec |-> output[r][k]]>> ELSE <<>>)
         \o Filtered(r, k + 1)

\* Lines 658-684: the action, read from the settings as they are now.
Dispatch(r) ==
    /\ pc[r] = "dispatch"
    /\ CallbackMayRun(r)
    /\ result' = [result EXCEPT ![r] =
          CASE settings.action = DedupeACTIONS.STATS ->
                 [kind |-> "array", recs |-> Decorated(r, [k \in DOMAIN output[r] |-> StatsValue(WorkingOf(r, k))])]
            [] settings.action = DedupeACTIONS.MARK ->
                 [kind |-> "array", recs |-> Decorated(r, [k \in DOMAIN output[r] |-> MarkValue(WorkingOf(r, k))])]
            [] settings.action = DedupeACTIONS.DELETE ->
                 [kind |-> "array", recs |-> Filtered(r, 1)]
            [] OTHER -> [kind |-> "undefined"]]
    /\ pc' = [pc EXCEPT ![r] = "done"]
    /\ UNCHANGED direct
    /\ UNCHANGED <<settings, input, heap, throttled, runState, events, error>>

-----------------------------------------------------------------------------
(* Initial states *)

\* The settings of a new instance: the class field (lines 205-216) and the
\* two assignments of the constructor (lines 449-450, the second one to the
\* key `dedupeRef`).
DefaultSettings ==
    [strategy |-> "clark", validateStrategy |-> TRUE, action |-> DedupeACTIONS.STATS,
     actionField |-> "dedupe", threshold |-> Rat(1, 10), markOk |-> Str(<<"O", "K">>),
     markDupe |-> Str(<<"D", "U", "P", "E">>), dupeRef |-> 0,
     fieldWeight |-> 0, markOriginal |-> FALSE, dedupeRef |-> DUPEREF.INDEX]

\* set(option, value), lines 461-468: Object.assign for an object of options,
\* one assignment for a key and a value.
set(s, options) == options @@ s

\* A number that is no action, and one that is no dupeRef.
InvalidAction == CHOOSE v \in 0 .. 9 : v \notin ObjectValues(DedupeACTIONS)
InvalidDupeRef == CHOOSE v \in 0 .. 9 : v \notin ObjectValues(DUPEREF)
Thresholds == {Rat(1, 10), Rat(1, 2)}

\* The strategies that get past the sanity checks.
Runnable == {name \in DOMAIN Catalog : "steps" \in DOMAIN Catalog[name]}

\* The well-formed strategies among them.
WellFormed == {name \in Runnable : validateStrategy(Catalog[name]).kind = "true"}

\* The settings the runs of the model are made with. A setting a run never
\* reads keeps its default (nothing is read after a failed check, the
\* threshold is read by MARK and DELETE only). Validation is switched off
\* with the other settings at their defaults; MARK and DELETE, which read the
\* scores STATS returns, run with two of the four pairs of fieldWeight and
\* markOriginal; the random strategy, of one field per step, runs under
\* STATS and MARK with the default weighting.
SettingsSpace ==
    {s \in {set(DefaultSettings,
                [strategy |-> st, validateStrategy |-> v, action |-> a, dupeRef |-> d,
                 threshold |-> th, fieldWeight |-> fw, markOriginal |-> mo]) :
              st \in StrategyNames, v \in BOOLEAN,
              a \in ObjectValues(DedupeACTIONS) \cup {InvalidAction},
              d \in ObjectValues(DUPEREF) \cup {InvalidDupeRef},
              th \in Thresholds, fw \in ObjectValues(FIELDWEIGHT), mo \in BOOLEAN} :
        LET rest(keys) == \A k \in keys : s[k] = DefaultSettings[k]
        IN  /\ s.action = InvalidAction =>
                 rest({"strategy", "validateStrategy", "dupeRef", "threshold", "fieldWeight", "markOriginal"})
            /\ s.dupeRef = InvalidDupeRef =>
                 rest({"strategy", "validateStrategy", "threshold", "fieldWeight", "markOriginal"})
            /\ s.strategy \notin Runnable =>
                 rest({"validateStrategy", "action", "dupeRef", "threshold", "fieldWeight", "markOriginal"})
            /\ s.strategy \in Runnable \ WellFormed /\ s.validateStrategy =>
                 rest({"action", "dupeRef", "threshold", "fieldWeight", "markOriginal"})
            /\ s.action = DedupeACTIONS.STATS => rest({"threshold"})
            /\ s.action # DedupeACTIONS.STATS =>
                 /\ rest({"dupeRef"})
                 /\ s.markOriginal <=> s.fieldWeight = FIELDWEIGHT.AVERAGE
            /\ s.strategy = "rand" =>
                 /\ rest({"validateStrategy", "dupeRef", "fieldWeight", "markOriginal"})
                 /\ s.action # DedupeACTIONS.DELETE
            /\ ~s.validateStrategy =>
                 rest({"action", "dupeRef", "threshold", "fieldWeight", "markOriginal"})}

MaxLen == 3

\* All sequences over S of length at most k.
RECURSIVE SeqsUpTo(_, _)
SeqsUpTo(S, k) ==
    IF k = 0 THEN {<<>>}
    ELSE LET shorter == SeqsUpTo(S, k - 1)
         IN  shorter \cup {Append(q, x) : q \in shorter, x \in S}

\* A record that carries a dedupe object with an empty steps list, and one
\* that carries the mark of an earlier MARK run.
RecE == [dedupe |-> DedupeObj(<<0, 0>>)] @@ RecA
RecF == [dedupe |-> Str(<<"D", "U", "P", "E">>)] @@ RecA

CarryPool == {RecA, RecE, RecF}

\* A record that carries a dedupe object of its own: its steps array is an
\* object of the caller, at address <<0, k>> for the k-th record of the input.
Place(rec, k) ==
    IF "dedupe" \in DOMAIN rec /\ rec.dedupe.t = "dedupe"
    THEN [rec EXCEPT !.dedupe = DedupeObj(<<0, k>>)]
    ELSE rec

\* What a caller passes to run(): an array of records of P, a path, or
\* something that is neither.
InputsOver(P) ==
    {[kind |-> "array", recs |-> [k \in DOMAIN q |-> Place(q[k], k)]] : q \in SeqsUpTo(P, MaxLen)}
    \cup {[kind |-> "path"], [kind |-> "other"]}

\* The steps arrays the records of an input carry, as the caller made them.
OwnedHeap(in) ==
    IF in.kind # "array" THEN <<>>
    ELSE [a \in {<<0, k>> : k \in {j \in DOMAIN in.recs : "dedupe" \in DOMAIN in.recs[j]
                                                          /\ in.recs[j].dedupe.t = "dedupe"}} |-> <<>>]

\* The settings and the input of a run: the random strategy runs on the
\* records of RandomPool, the others on those of Pool.
Cases ==
    {c \in SettingsSpace \X InputsOver(Pool) : c[1].strategy # "rand"}
    \cup {c \in SettingsSpace \X InputsOver(RandomPool) : c[1].strategy = "rand"}

\* The instance and its caller before the first call of run(); the runs of
\* `later` are called after the first has settled.
InitWith(cases, later) ==
    /\ \E c \in cases : settings = c[1] /\ input = c[2] /\ heap = OwnedHeap(c[2])
    /\ throttled = FALSE
    /\ pc = [r \in Runs |-> IF r = 1 THEN "idle" ELSE IF r \in later THEN "later" ELSE "off"]
    /\ strategy = [r \in Runs |-> Undef]
    /\ output = [r \in Runs |-> <<>>]
    /\ refs = [r \in Runs |-> <<>>]
    /\ sortedRefs = [r \in Runs |-> <<>>]
    /\ sortedBy = [r \in Runs |-> Undef]
    /\ stepIndex = [r \in Runs |-> 0]
    /\ i = [r \in Runs |-> 0]
    /\ n = [r \in Runs |-> 0]
    /\ compared = [r \in Runs |-> <<>>]
    /\ events = [r \in Runs |-> [runMutated |-> 0, progress |-> FALSE]]
    /\ result = [r \in Runs |-> [kind |-> "none"]]
    /\ error = [r \in Runs |-> [kind |-> "none", msgs |-> <<>>]]

\* No handler is called by the caller, nor validateStrategy().
NoHandlerCall == argument = Undef /\ returned = [kind |-> "none"]
NoDirectCall == validated = Undef /\ verdict = [kind |-> "none"] /\ NoHandlerCall

Init == InitWith(Cases, {}) /\ NoDirectCall

Next ==
    \E r \in Runs :
        \/ Run(r)
        \/ Checks(r)
        \/ Sanity(r)
        \/ Validate(r)
        \/ Mutate(r)
        \/ SweepStart(r)
        \/ StepBegin(r)
        \/ ScanIter(r)
        \/ Aggregate(r)
        \/ Dispatch(r)

Spec == Init /\ [][Next]_vars

\* Runs on records that carry a dedupe field: the default settings with the
\* bramer strategy and each action.
CarryCases ==
    {set(DefaultSettings, [strategy |-> "bramer", action |-> a]) : a \in ObjectValues(DedupeACTIONS)}
    \X InputsOver(CarryPool)

InitCarry == InitWith(CarryCases, {}) /\ NoDirectCall

SpecCarry == InitCarry /\ [][Next]_vars

\* Runs observed for their scan: the random strategy, of one step, and the
\* list-sorted strategy, under DELETE without marked originals for each
\* threshold and under STATS and MARK with them, for each form of dupeOf.
SweepSettings ==
    {set(DefaultSettings, [strategy |-> st, action |-> DedupeACTIONS.DELETE,
                           threshold |-> th, dupeRef |-> d]) :
        st \in {"rand", "listed"}, th \in Thresholds, d \in ObjectValues(DUPEREF)}
    \cup {set(DefaultSettings, [strategy |-> st, action |-> a, markOriginal |-> TRUE]) :
            st \in {"rand", "listed"}, a \in {DedupeACTIONS.STATS, DedupeACTIONS.MARK}}

SweepCases ==
    {c \in SweepSettings \X InputsOver(Pool) : c[1].strategy # "rand"}
    \cup {c \in SweepSettings \X InputsOver(RandomPool) : c[1].strategy = "rand"}

InitSweep == InitWith(SweepCases, {}) /\ NoDirectCall

SpecSweep == InitSweep /\ [][Next]_vars

\* Runs of the random strategy on inputs that alternate two records of
\* different years, with every callback that can run run in the end: a
\* settled promise runs its callbacks, and the loops of the sweep callback go
\* on once the callback has begun.
FairCases ==
    {set(DefaultSettings, [strategy |-> "rand", markOriginal |-> mo]) : mo \in BOOLEAN}
    \X {[kind |-> "array", recs |-> [k \in 1 .. len |-> IF k % 2 = 1 THEN RecA ELSE RecB]] :
            len \in 0 .. MaxLen}

InitFair == InitWith(FairCases, {}) /\ NoDirectCall

SpecFair == InitFair /\ [][Next]_vars /\ WF_vars(Next)

\* Runs of the bramer strategy on records that carry a field of the name of
\* a field of the working record: index, recNumber, original or dedupe.
ShadowPool ==
    {RecA, RecB, RecE}
    \cup {field @@ RecA : field \in {[index |-> Num(7)], [recNumber |-> Num(9)],
                                     [original |-> Str(<<"o">>)]}}

ShadowCases == {set(DefaultSettings, [strategy |-> "bramer"])} \X InputsOver(ShadowPool)

InitShadow == InitWith(ShadowCases, {}) /\ NoDirectCall

SpecShadow == InitShadow /\ [][Next]_vars

\* Three runs of one instance on one input: the first alone, the other two
\* called after it in any interleaving of their callbacks. The random
\* strategy runs on one input of two records.
TwoRunPool == {RecA, RecE}

TwoRunCases ==
    ({set(DefaultSettings, [strategy |-> "bramer"]),
      set(DefaultSettings, [strategy |-> "listed", action |-> DedupeACTIONS.MARK,
                            markOriginal |-> TRUE])}
     \X {in \in InputsOver(TwoRunPool) : in.kind = "array"})
    \cup ({set(DefaultSettings, [strategy |-> "rand"])}
          \X {[kind |-> "array", recs |-> <<RecA, RecB>>]})

InitTwoRuns == InitWith(TwoRunCases, {2, 3}) /\ NoDirectCall

SpecTwoRuns == InitTwoRuns /\ [][Next]_vars

\* A run alone, then a second run with the same settings and input during
\* which the caller calls set(option, value), lines 461-468: after run() has
\* returned its promise, between two callbacks of the promise chain.
SetCall ==
    /\ pc[2] \in {"checks", "sanity", "validate", "mutate", "sweep", "aggregate", "dispatch"}
    /\ \E options \in {[action |-> DedupeACTIONS.DELETE], [action |-> InvalidAction],
                       [strategy |-> "clark"], [validateStrategy |-> FALSE]} :
          settings' = set(settings, options)
    /\ UNCHANGED direct
    /\ UNCHANGED <<input, heap, throttled, pc, runState, events, result, error>>

InitSet ==
    /\ InitWith({set(DefaultSettings, [strategy |-> "bramer"])}
                    \X {in \in InputsOver(RandomPool) : in.kind = "array"}, {2})
    /\ NoDirectCall

NextSet == Next \/ SetCall

SpecSet == InitSet /\ [][NextSet]_vars

\* A caller applies validateStrategy() to a descriptor of its own. An object
\* with the properties of `given` only; a property not given is absent.
MaxSteps == 2

Optional(name, given, value) == IF given THEN name :> value ELSE <<>>

StepShapes ==
    {Optional("fields", f # "none", IF f = "empty" THEN <<>> ELSE <<"doi">>)
     @@ Optional("sort", so # "none", IF so = "blank" THEN SortList(<<>>) ELSE SortField("doi"))
     @@ Optional("comparison", c, "exact") :
        f \in {"none", "empty", "doi"}, so \in {"none", "blank", "name"}, c \in BOOLEAN}

\* The descriptors without steps, and the descriptors.
Stepless ==
    {Optional("title", t # "none", IF t = "blank" THEN "" ELSE "T")
     @@ Optional("description", d, "D")
     @@ Optional("mutators", m, [title |-> <<"noCase">>]) :
        t \in {"none", "blank", "given"}, d \in BOOLEAN, m \in BOOLEAN}

Descriptors ==
    Stepless \cup {("steps" :> st) @@ desc : desc \in Stepless, st \in SeqsUpTo(StepShapes, MaxSteps)}

InitValidate ==
    /\ InitWith({<<DefaultSettings, [kind |-> "other"]>>}, {})
    /\ validated \in Descriptors
    /\ verdict = [kind |-> "none"]
    /\ NoHandlerCall

\* dedupe.validateStrategy(validated)
ValidateCall ==
    /\ verdict.kind = "none"
    /\ verdict' = validateStrategy(validated)
    /\ UNCHANGED <<settings, input, heap, throttled, pc, runState, events, result, error,
                   validated, argument, returned>>

SpecValidate == InitValidate /\ [][ValidateCall]_vars

\* A caller applies a handler to arguments of its own: the instance is as
\* constructed and no run is made.
InitHandler(arguments) ==
    /\ InitWith({<<DefaultSettings, [kind |-> "other"]>>}, {})
    /\ validated = Undef /\ verdict = [kind |-> "none"]
    /\ argument \in arguments
    /\ returned = [kind |-> "none"]

\* The handler returns value.
Return(value) ==
    /\ returned.kind = "none"
    /\ returned' = [kind |-> "value", v |-> value]
    /\ UNCHANGED <<settings, input, heap, throttled, pc, runState, events, result, error,
                   validated, verdict, argument>>

\* The arguments of the calls of doiRewrite: a value made of a scheme, whole
\* or cut short, before at most MaxChars characters, and a record without
\* urls or with a list of at most two links.
MaxChars == 2

DoiArguments ==
    LET schemes == {<<>>, HTTPS, HTTP, <<"h", "t", "t", "p", ":">>, <<"H", "T", "T", "P", ":", "/", "/">>}
        values == {scheme \o body : scheme \in schemes, body \in SeqsUpTo({"1", "/"}, MaxChars)}
        hosts == {DOIORG, <<"d", "o", "i", "X", "o", "r", "g", "/">>, <<"x", ".", "o", "r", "g", "/">>}
        links == {Str(scheme \o host \o <<"1">>) : scheme \in {HTTPS, HTTP, <<>>}, host \in hosts}
        records == {<<>>} \cup {("urls" :> Arr(urls)) : urls \in SeqsUpTo(links, 2)}
    IN  {[v |-> v, ref |-> ref] : v \in values, ref \in records}

\* dedupe.mutators.doiRewrite.handler(v, ref)
DoiRewriteCall == Return(doiRewrite(argument.v, argument.ref))

SpecDoi == InitHandler(DoiArguments) /\ [][DoiRewriteCall]_vars

\* The page values given to consistentPageNumbering: digits, blanks, dashes and
\* another character, up to MaxPageLen code units.
MaxPageLen == 5
PageArguments == {[v |-> v, ref |-> <<>>] : v \in SeqsUpTo({"1", "2", " ", "-", "x"}, MaxPageLen)}

\* dedupe.mutators.consistentPageNumbering.handler(v)
PageNumberingCall == Return(consistentPageNumbering(argument.v))

SpecPages == InitHandler(PageArguments) /\ [][PageNumberingCall]_vars

\* The pairs of records and the steps given to compareViaStepMin and
\* compareViaStepAvg: titles and years absent, empty, equal and different,
\* lists among them; steps of up to MaxFields fields with the exact and the
\* random comparison, with and without skipOmitted; draws are the values the
\* random comparison yields during the call.
MaxFields == 2
CompareArguments ==
    LET records == {Optional("title", t # Undef, t) @@ Optional("year", y.t # "undef", y) :
                        t \in {Undef, Str(<<"A">>), Str(<<"B">>)},
                        y \in {Undef, Str(<<>>), Arr(<<Str(<<"X">>)>>), Arr(<<Str(<<"Y">>)>>)}}
        steps == {[fields |-> f, comparison |-> c] @@ Optional("skipOmitted", given, skip) :
                        f \in SeqsUpTo({"title", "year"}, MaxFields) \ {<<>>},
                        c \in {"exact", "random"},
                        given \in BOOLEAN, skip \in BOOLEAN}
        calls == {[a |-> a, b |-> b, step |-> step, draws |-> draws] :
                        a \in records, b \in records, step \in steps,
                        draws \in UNION {DrawSpace(step) : step \in steps}}
    IN  {x \in calls : x.draws \in DrawSpace(x.step)}

\* Lines 608-610 on a pair of records, for each fieldWeight.
InitCompare ==
    /\ InitWith({<<set(DefaultSettings, [fieldWeight |-> fw]), [kind |-> "other"]>> :
                    fw \in ObjectValues(FIELDWEIGHT)}, {})
    /\ validated = Undef /\ verdict = [kind |-> "none"]
    /\ argument \in CompareArguments
    /\ returned = [kind |-> "none"]
CompareCall == Return(DupeScore(argument.a, argument.b, argument.step, argument.draws))

SpecCompare == InitCompare /\ [][CompareCall]_vars

-----------------------------------------------------------------------------
(* Properties of the runs *)

IsStats == settings.action = DedupeACTIONS.STATS
IsMark == settings.action = DedupeACTIONS.MARK
IsDelete == settings.action = DedupeACTIONS.DELETE

\* The run has resolved with a sequence of records.
Returned(r) == pc[r] = "done" /\ result[r].kind = "array"

\* The working record of run r made from the k-th input record.
MadeFrom(r, k) == CHOOSE w \in {refs[r][j] : j \in DOMAIN refs[r]} : w.index = Num(k - 1)

\* The populated entries of a steps array.
Populated(steps) == {steps[s] : s \in {q \in DOMAIN steps : steps[q] # Hole}}

\* The backreferences recorded in a steps array.
DupeOfs(steps) == {e.dupeOf : e \in {x \in Populated(steps) : "dupeOf" \in DOMAIN x}}

Range(q) == {q[k] : k \in DOMAIN q}

\* C1: under STATS and MARK the output has the length of the input and its
\* k-th element is the k-th input record plus the action field, which carries
\* the annotations of the working record made from the k-th input record
\* wherever the sorts moved it; under DELETE the output is a subsequence of
\* the input in the input's order.
C1_InputOrderKept ==
    \A r \in Runs : Returned(r) =>
        LET out == result[r].recs
            in == input.recs
            field == settings.actionField
        IN  IF IsStats \/ IsMark
            THEN /\ Len(out) = Len(in)
                 /\ \A k \in DOMAIN out :
                       /\ DOMAIN out[k].rec = DOMAIN in[k] \cup {field}
                       /\ \A f \in DOMAIN in[k] \ {field} : out[k].rec[f] = in[k][f]
                       /\ LET w == MadeFrom(r, k)
                              v == out[k].rec[field]
                          IN  IF IsStats
                              THEN /\ v.score = w.dedupe.score
                                   /\ Range(v.dupeOf) = DupeOfs(heap[w.dedupe.steps])
                              ELSE v = IF RatLeq(settings.threshold, w.dedupe.score)
                                       THEN settings.markDupe ELSE settings.markOk
            ELSE /\ \A j \in DOMAIN out :
                       out[j].src \in DOMAIN in /\ out[j].rec = in[out[j].src]
                 /\ \A j, l \in DOMAIN out : j < l => out[j].src < out[l].src

\* A STATS run has returned whose last sort moved the records and that marked
\* one of them a duplicate and another not.
C1_Witness ==
    \E r \in Runs :
        /\ Returned(r) /\ IsStats
        /\ \E k \in DOMAIN sortedRefs[r] : sortedRefs[r][k] # k
        /\ \E k, l \in DOMAIN result[r].recs :
              /\ result[r].recs[k].rec[settings.actionField].dupeOf # <<>>
              /\ result[r].recs[l].rec[settings.actionField].dupeOf = <<>>

\* The scores a run has recorded for its working records.
StepsArray(ref) == IF StepsOf(ref) \in DOMAIN heap THEN heap[StepsOf(ref)] ELSE <<>>
StepEntries(r) == UNION {Populated(StepsArray(refs[r][k])) : k \in DOMAIN refs[r]}
FinalScores(r) ==
    {refs[r][k].dedupe.score : k \in {j \in DOMAIN refs[r] : "score" \in DOMAIN refs[r][j].dedupe}}

InUnit(v) == IsNum(v) /\ RatLeq(Num(0), v) /\ RatLeq(v, Num(1))

\* C2: every score of every populated step entry and every final score of a
\* working record is a number in the interval from 0 to 1.
C2_ScoresInUnitInterval ==
    \A r \in Runs :
        /\ \A e \in StepEntries(r) : InUnit(e.score)
        /\ \A v \in FinalScores(r) : InUnit(v)

\* A run has aggregated a final score strictly between 0 and 1 from at least
\* two populated steps.
C2_Witness ==
    \E r \in Runs : \E k \in DOMAIN refs[r] :
        /\ "score" \in DOMAIN refs[r][k].dedupe
        /\ RatLess(Num(0), refs[r][k].dedupe.score)
        /\ RatLess(refs[r][k].dedupe.score, Num(1))
        /\ Cardinality({s \in DOMAIN heap[StepsOf(refs[r][k])] :
                           heap[StepsOf(refs[r][k])][s] # Hole}) >= 2

\* The identifier a backreference uses for a working record.
IdOf(ref) == IF settings.dupeRef = DUPEREF.RECNUMBER THEN ref.recNumber ELSE ref.index

\* The number of steps of the strategy run r has captured.
StepCount(r) == IF "steps" \in DOMAIN strategy[r] THEN Len(strategy[r].steps) ELSE 0

\* The records of run r whose entry of step s (from 1) carries a backreference.
Backrefs(r, s) ==
    {k \in DOMAIN refs[r] :
        /\ s \in DOMAIN StepsArray(refs[r][k])
        /\ StepsArray(refs[r][k])[s] # Hole
        /\ "dupeOf" \in DOMAIN StepsArray(refs[r][k])[s]}

BackrefOf(r, s, k) == StepsArray(refs[r][k])[s].dupeOf

\* The position of every working record in the order step s sorts run r into.
Positions(r, s) ==
    LET order == SortBy(refs[r], StepSort(strategy[r].steps[s]))
    IN  [k \in DOMAIN refs[r] |-> CHOOSE p \in DOMAIN order : order[p] = k]

\* The sweep of run r is over: its step entries are final.
Swept(r) == pc[r] \in {"aggregate", "dispatch", "done"}

CountPopulated(steps) == Cardinality({q \in DOMAIN steps : steps[q] # Hole})
MeanOfPopulated(steps) ==
    IF CountPopulated(steps) = 0 THEN Num(0)
    ELSE RatDivInt(SumScores(steps), CountPopulated(steps))

\* C4: the final score of a record is the arithmetic mean of the scores of
\* its populated step entries, whatever their positions in the step list,
\* and zero when it has none.
C4_FinalScoreIsMean ==
    \A r \in Runs : \A k \in DOMAIN refs[r] :
        "score" \in DOMAIN refs[r][k].dedupe =>
            refs[r][k].dedupe.score = MeanOfPopulated(StepsArray(refs[r][k]))

\* The final score of the working record made from the k-th input record.
ScoreOf(r, k) == MadeFrom(r, k).dedupe.score

IsDoiStep(step) ==
    /\ "fields" \in DOMAIN step /\ step.fields = <<"doi">>
    /\ StepSort(step).t = "name" /\ StepSort(step).v = "doi"
    /\ StepComparison(step) = "exact"
    /\ "skipOmitted" \notin DOMAIN step

\* The pairs of working records of run r with equal, non-empty normalized
\* doi values: <<p, q>> with p before q in the order `pos`.
SameDoi(r, pos) ==
    {pq \in (DOMAIN refs[r]) \X (DOMAIN refs[r]) :
        /\ pos[pq[1]] < pos[pq[2]]
        /\ Truthy(Get(refs[r][pq[1]], "doi"))
        /\ Get(refs[r][pq[1]], "doi") = Get(refs[r][pq[2]], "doi")}

\* The loop of step s (from 1) of run r has just ended, or the sweep is over.
StepOver(r, s) == (pc[r] = "step" /\ stepIndex[r] = s) \/ pc[r] \in {"aggregate", "dispatch", "done"}

\* C6: with dupeRef INDEX and markOriginal false, a step that sorts by doi
\* and compares the single field doi with exact reaches every pair of records
\* with equal non-empty normalized doi, and the later-sorted record of the
\* pair ends the step with step score 1 and a dupeOf that is the input index
\* of a record with the same doi sorted before it: the other record of the
\* pair when only the two share the doi.
C6_DoiStepFindsPairs ==
    \A r \in Runs : \A s \in 1 .. StepCount(r) :
        (/\ IsDoiStep(strategy[r].steps[s])
         /\ settings.dupeRef = DUPEREF.INDEX /\ ~settings.markOriginal
         /\ StepOver(r, s)) =>
            LET pos == Positions(r, s)
                pairs == SameDoi(r, pos)
            IN  /\ (pc[r] = "step" /\ stepIndex[r] = s) =>
                      \A pq \in pairs : \E c \in DOMAIN compared[r] :
                          /\ sortedRefs[r][compared[r][c].i + 1] = pq[1]
                          /\ sortedRefs[r][compared[r][c].n + 1] = pq[2]
                /\ \A pq \in pairs :
                      LET e == At(StepsArray(refs[r][pq[2]]), s - 1)
                      IN  /\ e # Undef
                          /\ e.score = Num(1)
                          /\ "dupeOf" \in DOMAIN e
                          /\ \E qq \in pairs : qq[2] = pq[2] /\ e.dupeOf = refs[r][qq[1]].index
                          /\ Cardinality({qq \in pairs : qq[2] = pq[2]}) = 1 =>
                                e.dupeOf = refs[r][pq[1]].index

\* A doi step has ended for two records whose rewritten doi values are equal
\* and that a record without a doi separates in the input.
C6_Witness ==
    \E r \in Runs : \E s \in 1 .. StepCount(r) :
        /\ IsDoiStep(strategy[r].steps[s])
        /\ settings.dupeRef = DUPEREF.INDEX /\ ~settings.markOriginal
        /\ pc[r] = "step" /\ stepIndex[r] = s
        /\ Len(refs[r]) = 3
        /\ ~Truthy(Get(refs[r][2], "doi"))
        /\ <<1, 3>> \in SameDoi(r, Positions(r, s))
        /\ refs[r][1].doi # input.recs[1].doi

\* The checks of a step, by the message of the error, and whether the step
\* violates one.
StepChecks ==
    {"Step contains no fields", "Step contains no sort field(s)",
     "Step contains a blank sort field list", "Step contains no comparison"}

Violated(step, msg) ==
    CASE msg = "Step contains no fields" -> "fields" \notin DOMAIN step \/ step.fields = <<>>
      [] msg = "Step contains no sort field(s)" -> Missing(step, "sort")
      [] msg = "Step contains a blank sort field list" ->
            "sort" \in DOMAIN step /\ step.sort.t = "list" /\ step.sort.v = <<>>
      [] msg = "Step contains no comparison" -> Missing(step, "comparison")

\* The checks that a descriptor with a steps sequence violates.
Violations(strat) ==
    {[msg |-> "Field " \o f \o " is missing", at |-> 0] :
        f \in {g \in {"title", "description", "mutators"} : Missing(strat, g)}}
    \cup (IF strat.steps = <<>>
          THEN {[msg |-> "Should contain at least one step", at |-> 0]} ELSE {})
    \cup UNION {{[msg |-> m, at |-> k] : m \in {c \in StepChecks : Violated(strat.steps[k], c)}} :
                  k \in DOMAIN strat.steps}

\* The settings and the input pass every check that precedes validation.
ChecksPass ==
    /\ settings.action \in {DedupeACTIONS.STATS, DedupeACTIONS.MARK, DedupeACTIONS.DELETE}
    /\ settings.dupeRef \in {DUPEREF.INDEX, DUPEREF.RECNUMBER}
    /\ input.kind = "array"
    /\ settings.strategy \in DOMAIN Catalog
    /\ "steps" \in DOMAIN Catalog[settings.strategy]

\* One of the conditions under which run() has to fail.
MustFail ==
    \/ ~ChecksPass
    \/ settings.validateStrategy /\ Violations(Catalog[settings.strategy]) # {}

C7_InputUntouched ==
    \A r \in Runs : pc[r] = "done" =>
        \A a \in DOMAIN OwnedHeap(input) : heap[a] = OwnedHeap(input)[a]

\* No step of the captured strategy draws its scores at random.
Deterministic(r) ==
    \A s \in 1 .. StepCount(r) : StepComparison(strategy[r].steps[s]) # "random"

\* Run r has settled as the first run, which ran alone, has: the same output,
\* the same final scores and step entries for every record, or the same error.
SameAsAlone(r) ==
    /\ pc[r] = pc[1]
    /\ result[r] = result[1]
    /\ error[r] = error[1]
    /\ DOMAIN refs[r] = DOMAIN refs[1]
    /\ \A k \in DOMAIN refs[r] :
          /\ refs[r][k].dedupe.score = refs[1][k].dedupe.score
          /\ StepsArray(refs[r][k]) = StepsArray(refs[1][k])

Settled(r) == pc[r] \in {"done", "failed"}

\* C8 as stated: a run that follows a run of the same instance with the same
\* settings and input, alone or interleaved with another at the pipeline
\* stages, returns what the run alone returned, scores and backreferences.
C8_RunsAgree ==
    \A r \in {2, 3} : (Settled(1) /\ Settled(2) /\ Settled(3)) => SameAsAlone(r)

\* C8 amended: the same, for the strategies none of whose steps uses the
\* random comparison.
C8_DeterministicRunsAgree ==
    \A r \in {2, 3} :
        (Settled(1) /\ Settled(2) /\ Settled(3) /\ Deterministic(1)) => SameAsAlone(r)

\* Three runs on three records of one doi that carry their own steps arrays
\* have returned the same backreferences.
C8_Witness ==
    /\ Returned(1) /\ Returned(2) /\ Returned(3)
    /\ SameAsAlone(2) /\ SameAsAlone(3)
    /\ IsStats
    /\ Len(input.recs) = 3
    /\ \A k \in DOMAIN input.recs : input.recs[k] = Place(RecE, k)
    /\ result[3].recs[3].rec[settings.actionField].dupeOf # <<>>

\* For a descriptor with a steps sequence the call has returned true when no
\* check is violated and otherwise one error for every violated check.
ListsEveryViolation ==
    (verdict.kind # "none" /\ "steps" \in DOMAIN validated) =>
        IF Violations(validated) = {}
        THEN verdict.kind = "true"
        ELSE /\ verdict.kind = "errs"
             /\ Range(verdict.errs) = Violations(validated)
             /\ Len(verdict.errs) = Cardinality(Violations(validated))

\* C10: validateStrategy, applied to any descriptor, returns true when no
\* check is violated and otherwise a list with one error for every violated
\* check (for a descriptor without steps, the missing fields at least); it
\* never fails in another way.
C10_ValidateTotal ==
    /\ ListsEveryViolation
    /\ verdict.kind # "none" => verdict.kind \in {"true", "errs"}
    /\ (verdict.kind # "none" /\ "steps" \notin DOMAIN validated) =>
          /\ verdict.kind = "errs"
          /\ {[msg |-> "Field " \o f \o " is missing", at |-> 0] :
                f \in {g \in {"title", "description", "mutators", "steps"} :
                         Missing(validated, g)}} \subseteq Range(verdict.errs)

-----------------------------------------------------------------------------
(* Properties of the handlers *)

\* u with a leading http:// replaced by https://.
WithHttps(u) == IF StartsWith(u, HTTP) THEN HTTPS \o DropFirst(u, Len(HTTP)) ELSE u

\* u is a link into doi.org, and u is one with any character for the dot.
IsDoiOrgUrl(u) == StartsWith(u, HTTPS \o DOIORG) \/ StartsWith(u, HTTP \o DOIORG)
IsDoiAnyOrgUrl(u) ==
    \E c \in {u[k] : k \in DOMAIN u} :
        LET host == <<"d", "o", "i", c, "o", "r", "g", "/">>
        IN  StartsWith(u, HTTPS \o host) \/ StartsWith(u, HTTP \o host)

\* The result of doiRewrite by the cases of its description; the entries of
\* urls that count as DOI links are those of doi.org when `literal`, and
\* those with any character for its dot otherwise.
DoiRewritten(v, ref, literal) ==
    IF v # <<>>
    THEN CASE StartsWith(v, HTTPS) -> v
           [] StartsWith(v, HTTP) -> HTTPS \o DropFirst(v, Len(HTTP))
           [] OTHER -> HTTPS \o DOIORG \o v
    ELSE LET urls == IF "urls" \in DOMAIN ref THEN ref.urls.v ELSE <<>>
             hits == {k \in DOMAIN urls : IF literal THEN IsDoiOrgUrl(urls[k].v)
                                            ELSE IsDoiAnyOrgUrl(urls[k].v)}
         IN  IF hits = {} THEN <<>>
             ELSE WithHttps(urls[CHOOSE k \in hits : \A m \in hits : k <= m].v)

\* C11: doiRewrite returns a value that starts with https:// unchanged, one
\* that starts with http:// with the scheme replaced by https, any other
\* non-empty value prefixed with https://doi.org/; for an empty value it
\* returns the first entry of the record's urls that is a link
\* http(s)://doi.org/..., with the scheme https, and the empty string when
\* there is none; so the result is empty or starts with https://.
C11_DoiRewrite ==
    returned.kind = "value" =>
        /\ returned.v = DoiRewritten(argument.v, argument.ref, TRUE)
        /\ returned.v = <<>> \/ StartsWith(returned.v, HTTPS)

\* The same with the dot of doi.org standing for any character.
DoiRewriteUpToTheDot ==
    returned.kind = "value" =>
        /\ returned.v = DoiRewritten(argument.v, argument.ref, FALSE)
        /\ returned.v = <<>> \/ StartsWith(returned.v, HTTPS)

\* from, a dash, and to, with to left-padded from from when it is shorter.
Padded(from, to) ==
    from \o <<"-">>
         \o (IF Len(to) < Len(from) THEN SubSeq(from, 1, Len(from) - Len(to)) ELSE <<>>)
         \o to

\* The ways to read v as digits, blanks, dashes, digits, blanks: the positions
\* where each part ends. The plain form 'from-to' has no blanks and one dash.
Readings(v) ==
    {p \in (1 .. Len(v)) \X (1 .. Len(v)) \X (1 .. Len(v)) \X (1 .. Len(v)) :
        /\ p[1] <= p[2] /\ p[2] < p[3] /\ p[3] < p[4]
        /\ AllIn(SubSeq(v, 1, p[1]), Digits)
        /\ AllIn(SubSeq(v, p[1] + 1, p[2]), Whitespace)
        /\ AllIn(SubSeq(v, p[2] + 1, p[3]), Dashes)
        /\ AllIn(SubSeq(v, p[3] + 1, p[4]), Digits)
        /\ AllIn(SubSeq(v, p[4] + 1, Len(v)), Whitespace)}
Plain(v, p) == p[2] = p[1] /\ p[3] = p[2] + 1 /\ p[4] = Len(v)

\* The ways to read v as digits followed by blanks.
Singles(v) ==
    {a \in 1 .. Len(v) :
        AllIn(SubSeq(v, 1, a), Digits) /\ AllIn(SubSeq(v, a + 1, Len(v)), Whitespace)}

\* The page numbering of v by the cases of its description, over all the
\* readings when `lenient` and over the plain ones otherwise.
PagesBy(v, lenient) ==
    LET ranges == {p \in Readings(v) : lenient \/ Plain(v, p)}
        alone == {a \in Singles(v) : lenient \/ a = Len(v)}
    IN  IF ranges # {}
        THEN LET p == CHOOSE p \in ranges : TRUE
             IN  Padded(SubSeq(v, 1, p[1]), SubSeq(v, p[3] + 1, p[4]))
        ELSE IF alone # {} THEN SubSeq(v, 1, CHOOSE a \in alone : TRUE)
        ELSE <<>>

\* C12: consistentPageNumbering yields 'from-' followed by to, left-padded
\* with the first (length of from - length of to) digits of from when to is
\* shorter, for a value of the form 'from-to' of two digit strings; from for
\* a value that is only digits; the empty string for every other value.
C12_PageNumbering ==
    returned.kind = "value" => returned.v = PagesBy(argument.v, FALSE)

\* C12: the same, where blanks may follow from and to and one or more dashes
\* separate them; the result has neither the blanks nor more than one dash.
C12_PageNumberingLenient ==
    returned.kind = "value" => returned.v = PagesBy(argument.v, TRUE)

\* A value with a blank before the dash and a shorter to was padded.
C12_Witness ==
    /\ returned.kind = "value"
    /\ \E p \in Readings(argument.v) : ~Plain(argument.v, p) /\ p[4] - p[3] < p[1]
    /\ Len(returned.v) >= Len(argument.v)

-----------------------------------------------------------------------------
(* Properties of the scan *)

\* Run r is inside a step, or has just left it: compared[r] is the history
\* of that step, whose index (from 0) is ScannedStep(r).
Scanning(r) == pc[r] = "scan" \/ (pc[r] = "step" /\ stepIndex[r] > 0)
ScannedStep(r) == IF pc[r] = "scan" THEN stepIndex[r] ELSE stepIndex[r] - 1

\* The record at position p (from 0) of the sorted order of run r.
SortedAt(r, p) == refs[r][sortedRefs[r][p + 1]]

\* The comparisons of the step so far that scored above 0 with the record at
\* position p as the later member.
Matches(r, p) ==
    {j \in DOMAIN compared[r] : compared[r][j].n = p /\ Positive(compared[r][j].score)}

\* The strongest of a set of comparisons, the last-scanned among equals.
Strongest(r, hits) ==
    CHOOSE j \in hits : \A m \in hits :
        \/ ~RatLeq(compared[r][j].score, compared[r][m].score)
        \/ (compared[r][j].score = compared[r][m].score /\ m <= j)

\* The entry of the scanned step in the steps array of the record at p.
EntryAt(r, p) == At(StepsArray(SortedAt(r, p)), ScannedStep(r))

StrongestRecorded ==
    \A r \in Runs : Scanning(r) =>
        \A p \in 0 .. Len(sortedRefs[r]) - 1 :
            Matches(r, p) # {} =>
                LET best == compared[r][Strongest(r, Matches(r, p))]
                IN  /\ EntryAt(r, p) # Undef
                    /\ EntryAt(r, p).score = best.score
                    /\ "dupeOf" \in DOMAIN EntryAt(r, p)
                    /\ EntryAt(r, p).dupeOf = IdOf(SortedAt(r, best.i))

NeverDecreases ==
    \A r \in Runs : (pc[r] = "scan" /\ pc'[r] \in {"scan", "step"}) =>
        \A p \in 0 .. Len(sortedRefs[r]) - 1 :
            LET before == At(StepsArray(SortedAt(r, p)), stepIndex[r])
                after == At(StepsArray(SortedAt(r, p))', stepIndex[r])
            IN  before # Undef =>
                    /\ after # Undef
                    /\ RatLeq(ToNumber(before.score), ToNumber(after.score))

\* C13: within a step the score recorded for a record never decreases; a
\* record matched as the later member of a pair holds, from then on and at
\* the end of the step, the maximum of the positive scores of the
\* comparisons in which it was the later member, and as dupeOf the anchor of
\* the last-scanned comparison that attained it.
C13_StrongestMatchKept == [][NeverDecreases]_vars /\ []StrongestRecorded

\* A step has ended in which a record matched two anchors, the second at
\* least as strongly as the first, and a step in which the second was weaker.
C13_Witness ==
    \E r \in Runs : pc[r] = "step" /\ stepIndex[r] > 0 /\
        \E j, m \in DOMAIN compared[r] :
            /\ j < m /\ compared[r][j].n = compared[r][m].n
            /\ Positive(compared[r][j].score)
            /\ compared[r][j].score = compared[r][m].score

-----------------------------------------------------------------------------
(* Properties of the pair score *)

\* The score of the field at position k of the step of the call: 0 when
\* omitted fields are skipped and a value is empty, the comparison otherwise.
ScoreOfField(k) ==
    LET step == argument.step
        x == Get(argument.a, step.fields[k])
        y == Get(argument.b, step.fields[k])
        skip == IF "skipOmitted" \in DOMAIN step THEN step.skipOmitted ELSE TRUE
    IN  IF skip /\ (~Truthy(x) \/ ~Truthy(y)) THEN Num(0)
        ELSE ToNumber(ComparisonHandler(step.comparison, x, y, argument.draws[k]))

RECURSIVE SumOfFields(_)
SumOfFields(k) == IF k = 0 THEN Num(0) ELSE RatAdd(SumOfFields(k - 1), ScoreOfField(k))

RatEq(x, y) == RatLeq(x, y) /\ RatLeq(y, x)

IsLeast(score) ==
    /\ \A k \in DOMAIN argument.step.fields : RatLeq(score, ScoreOfField(k))
    /\ \E k \in DOMAIN argument.step.fields : RatEq(score, ScoreOfField(k))
IsMean(score) ==
    RatEq(score, RatDivInt(SumOfFields(Len(argument.step.fields)), Len(argument.step.fields)))

\* C14: the score of a pair under a step of one or more fields is the
\* minimum of the scores of the step's fields when fieldWeight is MINIMUM and
\* their arithmetic mean when it is AVERAGE; a field scores 0 when
\* skipOmitted (true unless given) holds and a value is empty, and the
\* step's comparison of the two values otherwise.
C14_PairScore ==
    returned.kind = "value" =>
        IF settings.fieldWeight = FIELDWEIGHT.MINIMUM
        THEN IsLeast(ToNumber(returned.v))
        ELSE IsMean(ToNumber(returned.v))

\* What holds: the minimum under MINIMUM, and under AVERAGE the score of the
\* last field divided by the number of fields.
PairScoreOfLastField ==
    returned.kind = "value" =>
        IF settings.fieldWeight = FIELDWEIGHT.MINIMUM
        THEN IsLeast(ToNumber(returned.v))
        ELSE RatEq(ToNumber(returned.v),
                   RatDivInt(ScoreOfField(Len(argument.step.fields)), Len(argument.step.fields)))

-----------------------------------------------------------------------------
(* Properties of the cursors *)

\* The iteration run r makes from this state compares a pair, without
\* failing, and scores it 0.
ScoresZero(r) ==
    /\ pc[r] = "scan" /\ pc'[r] = "scan"
    /\ Len(compared'[r]) = Len(compared[r]) + 1
    /\ ~Positive(compared'[r][Len(compared'[r])].score)

\* The anchor and the candidate of run r have equal values for every field
\* of the sort key of the step.
SameSortKey(r) ==
    \A f \in Range(SortKeys(StepSort(strategy[r].steps[stepIndex[r] + 1]))) :
        Get(SortedAt(r, i[r]), f) = Get(SortedAt(r, n[r]), f)

\* The cursors of run r move as after a comparison that scored 0.
ZeroAdvances(r) ==
    IF SameSortKey(r) /\ n[r] + 1 < Len(sortedRefs[r])
    THEN i'[r] = i[r] /\ n'[r] = n[r] + 1
    ELSE i'[r] = i[r] + 1 /\ n'[r] = i[r] + 2

\* The sort of the step names one field, as a name or as a list of one.
SortsByOneField(r) == Len(SortKeys(StepSort(strategy[r].steps[stepIndex[r] + 1]))) = 1

\* C15: when a comparison scores 0, whether the step sorts by a field name
\* or by a list of field names: if anchor and candidate have equal sort-key
\* values, n advances by one and the anchor stays, or at the end of the
\* records the anchor advances and n becomes i + 1; if they differ, the anchor
\* advances by one and n becomes i + 1.
C15_CursorsOnZero == [][\A r \in Runs : ScoresZero(r) => ZeroAdvances(r)]_vars

\* The same for the steps that sort by one field.
CursorsOnZeroByOneField ==
    [][\A r \in Runs : (ScoresZero(r) /\ SortsByOneField(r)) => ZeroAdvances(r)]_vars

-----------------------------------------------------------------------------
(* Properties of the events *)

\* Run r has not reached the sweep; it has entered it and not failed; it
\* has failed inside it.
BeforeSweep(r) == pc[r] \in {"off", "later", "idle", "checks", "sanity", "validate", "mutate", "sweep"}
InSweepOrAfter(r) == pc[r] \in {"step", "scan", "aggregate", "dispatch", "done"}
FailedInSweep(r) == pc[r] = "failed" /\ error[r].kind = "TypeError"

\* runMutated of run r has just been emitted: nothing of the sweep has run.
JustEmitted(r) == pc[r] = "step" /\ stepIndex[r] = 0

\* The working record has a dedupe.steps that is empty, and no final score.
Unscored(ref) ==
    /\ StepsOf(ref) \in DOMAIN heap
    /\ heap[StepsOf(ref)] = <<>>
    /\ "score" \notin DOMAIN ref.dedupe

\* C16: a run that passes the checks and the validation emits runMutated
\* exactly once, after every input record has been normalized and before
\* the first comparison and the first progress event of its sweep; when it is
\* emitted every working record has an empty dedupe.steps and no final score.
C16_RunMutatedOnce ==
    \A r \in Runs :
        /\ events[r].runMutated <= 1
        /\ BeforeSweep(r) =>
              events[r].runMutated = 0 /\ ~events[r].progress /\ compared[r] = <<>>
        /\ (InSweepOrAfter(r) \/ FailedInSweep(r)) =>
              /\ events[r].runMutated = 1
              /\ Len(refs[r]) = Len(input.recs)
              /\ \A k \in DOMAIN refs[r] : refs[r][k].original = Ref(k)
        /\ JustEmitted(r) => \A k \in DOMAIN refs[r] : Unscored(refs[r][k])

-----------------------------------------------------------------------------
(* Properties of the working records *)

\* Run r has made its working records; it has made them and not begun a step.
Normalized(r) == pc[r] \in {"sweep", "step", "scan", "aggregate", "dispatch", "done"}
BeforeFirstStep(r) == pc[r] = "sweep" \/ JustEmitted(r)

\* The record number of the k-th input record: the one it supplies, or k.
RecNumberOf(k) ==
    IF "refNumber" \in DOMAIN input.recs[k] THEN input.recs[k].refNumber ELSE Num(k)

\* C17: whatever fields the input records carry, index, original, recNumber
\* and dedupe among them, the working record of the k-th input record (k
\* from 1) has index k - 1, original referring to that input record,
\* recNumber equal to the record number the caller supplied, or k without
\* one, and a dedupe.steps that is empty before the first step.
C17_WorkingRecordFields ==
    \A r \in Runs : Normalized(r) =>
        /\ Len(refs[r]) = Len(input.recs)
        /\ \A k \in DOMAIN refs[r] :
              /\ refs[r][k].index = Num(k - 1)
              /\ refs[r][k].original = Ref(k)
              /\ refs[r][k].recNumber = RecNumberOf(k)
              /\ BeforeFirstStep(r) =>
                    StepsOf(refs[r][k]) \in DOMAIN heap /\ heap[StepsOf(refs[r][k])] = <<>>

-----------------------------------------------------------------------------
(* Properties of the scan's progress *)

\* An iteration of run r moves (i, n) up in the lexicographic order.
Advances(r) ==
    (pc[r] = "scan" /\ pc'[r] = "scan") =>
        i'[r] > i[r] \/ (i'[r] = i[r] /\ n'[r] > n[r])

\* No pair of positions was compared twice in the step, and no more pairs
\* than the records have.
EachPairOnce(r) ==
    LET len == Len(sortedRefs[r])
    IN  /\ \A j, m \in DOMAIN compared[r] :
              (compared[r][j].i = compared[r][m].i /\ compared[r][j].n = compared[r][m].n) => j = m
        /\ \A j \in DOMAIN compared[r] : compared[r][j].i < compared[r][j].n /\ compared[r][j].n < len
        /\ 2 * Len(compared[r]) <= len * (len - 1)

InRange(r) == 0 <= i[r] /\ i[r] < n[r] /\ n[r] <= Len(sortedRefs[r])

\* A run that has entered its sweep gets through every step of it, through
\* its aggregation and through its action.
Terminates ==
    (\E r \in Runs : pc[r] \in {"step", "scan"}) ~> (\A r \in Runs : pc[r] \in {"off", "done"})

-----------------------------------------------------------------------------
(* Properties of DELETE *)

\* The input records run r kept, by position.
KeptOf(r) == {result[r].recs[j].src : j \in DOMAIN result[r].recs}

\* The record at k names the record at j as the one it duplicates.
NamesAsOriginal(r, k, j) ==
    /\ j # k
    /\ \E e \in Populated(StepsArray(refs[r][k])) :
          "dupeOf" \in DOMAIN e /\ e.dupeOf = IdOf(refs[r][j])

\* From the record at k a chain of at most `hops` backreferences leads to a
\* record that was kept.
RECURSIVE LeadsToKept(_, _, _)
LeadsToKept(r, k, hops) ==
    \/ k \in KeptOf(r)
    \/ /\ hops > 0
       /\ \E j \in DOMAIN refs[r] : NamesAsOriginal(r, k, j) /\ LeadsToKept(r, j, hops - 1)

\* Run r has returned from DELETE with a strategy of one step, originals not
\* marked and a threshold above 0.
OneStepDelete(r) ==
    /\ Returned(r) /\ IsDelete
    /\ StepCount(r) = 1
    /\ ~settings.markOriginal
    /\ RatLess(Num(0), settings.threshold)

\* C19: with a strategy of one step, markOriginal false and a threshold
\* above 0, DELETE removes only records from which a chain of dupeOf
\* backreferences leads to a record that is kept; the first record of the
\* sorted order is kept, and an input that is not empty gives an output that
\* is not empty.
C19_RemovedLeadToKept ==
    \A r \in Runs : OneStepDelete(r) =>
        /\ \A k \in DOMAIN refs[r] : LeadsToKept(r, k, Len(refs[r]))
        /\ refs[r] # <<>> => sortedRefs[r][1] \in KeptOf(r) /\ result[r].recs # <<>>

\* A record was removed whose original was removed as well.
C19_Witness ==
    \E r \in Runs :
        /\ OneStepDelete(r)
        /\ \E k, j \in DOMAIN refs[r] \ KeptOf(r) : NamesAsOriginal(r, k, j)

-----------------------------------------------------------------------------
(* Properties of set() during a run *)

\* C20: a run uses the settings in effect when run() is called: a set() on
\* the instance after run() has returned its promise and before the run
\* completes changes neither the strategy the run executes, nor the checks
\* it passes or fails, nor the action applied to its result; the run
\* settles as the run before it did, which had the same settings and input
\* and no set() during it.
C20_SettingsOfTheCall ==
    (Settled(1) /\ Settled(2)) => strategy[2] = strategy[1] /\ SameAsAlone(2)

\* What holds: the run executes the strategy of the settings of the call.
StrategyOfTheCall ==
    (Settled(1) /\ pc[2] \notin {"off", "later"}) => strategy[2] = strategy[1]

====
